---- MODULE Spec2Model ----
(***************************************************************************)
(* Streaming task orchestrator of hm-aurorah-api: the create-message       *)
(* endpoint (app/api/v1/endpoints/chatbot.py), the background run          *)
(* (app/api/v1/endpoints/chatbot_message_c_action.py), the agent chunk     *)
(* parser (app/services/langgraph_client.py) and the producer side of the  *)
(* Redis-stream message queue (app/core/rsmqueue.py).                      *)
(*                                                                         *)
(* One chatbot task, a bounded number of create-message requests, each of  *)
(* which may schedule one background run.  Every await of the code is an   *)
(* interleaving point: a step of the model is the code between two awaits  *)
(* that touch the database, the channel or the agent.                      *)
(***************************************************************************)
EXTENDS Integers, Sequences, FiniteSets, TLC

\* ------------------------------------------------------------------ bounds
\* number of chunks the agent yields, over all runs, before its streams end
MaxChunks == 2
\* number of entries the producers append to the channel the subscriptions read
MaxEntries == 2
\* the maxlen of the queue object of a producer whose stream reaches its cap
\* (the settings' REDIS_STREAM_MQ_MAXLEN, scaled down)
StreamMaxLen == 1
\* number of files attached to a message
MaxFiles == 3

\* ------------------------------------------------------ status enumerations
\* ChatbotTaskStatus
READY == "ready"
IN_PROGRESS == "in_progress"
HITL == "hitl"
COMPLETED == "completed"
FAILED == "failed"
CANCELLED == "cancelled"
ABANDONED == "abandoned"
TaskStatuses == {READY, IN_PROGRESS, HITL, COMPLETED, FAILED, CANCELLED, ABANDONED}

\* ChatbotMessageStatus (HITL, COMPLETED, FAILED, CANCELLED, ABANDONED share
\* their string values with the task statuses)
PENDING == "pending"
PROCESSING == "processing"
MessageStatuses == {PENDING, PROCESSING, HITL, COMPLETED, FAILED, CANCELLED, ABANDONED}

\* AssistantID members used by the create-message endpoint
TASK_ASSISTANT == "task_assistant"
TASK_TRANSLATION == "task_translation"

\* Python's None for strings and ids
NoneVal == "None"

\* --------------------------------------------------- JSON values of a chunk
\* A chunk's data is JSON: every value carries its Python type so that
\* isinstance() and `in` can be evaluated as the parser evaluates them.
JStr(s) == [t |-> "str", s |-> s]
JNone == [t |-> "none"]
JList(items) == [t |-> "list", items |-> items]
\* a dict keeps its insertion order in keys (dict.items() iterates in it)
JDict(keys, val) == [t |-> "dict", keys |-> keys, val |-> val]
JEmptyDict == [t |-> "dict", keys |-> <<>>, val |-> <<>>]

IsDict(v) == v.t = "dict"
IsList(v) == v.t = "list"
IsStr(v) == v.t = "str"
\* Python: k in d
JIn(k, d) == k \in DOMAIN d.val
\* Python: d.get(k, default)
JGet(d, k, default) == IF k \in DOMAIN d.val THEN d.val[k] ELSE default
\* Python truthiness of a JSON value
Truthy(v) ==
    CASE v.t = "none" -> FALSE
      [] v.t = "str" -> v.s # ""
      [] v.t = "list" -> Len(v.items) > 0
      [] v.t = "dict" -> Len(v.keys) > 0
\* a str | None value as the string the model stores
StrOrNone(v) == IF v.t = "str" THEN v.s ELSE NoneVal

\* ------------------------------------------------------- the agent's chunks
\* One element of a tasks chunk's "interrupts" list and of an updates chunk's
\* "__interrupt__" list: {"value": {"msg": msg}, "id": ...}
InterruptItem(msg) ==
    JDict(<<"value", "id">>,
          "value" :> JDict(<<"msg">>, "msg" :> JStr(msg)) @@ "id" :> JStr("i1"))

\* the interrupt message the agent asks the human with
InterruptText == "Please specify target language"

\* StreamPart(event="metadata", data={"run_id": "R1"})
ChunkMetadata ==
    [event |-> "metadata", data |-> JDict(<<"run_id">>, "run_id" :> JStr("R1"))]
\* StreamPart(event="tasks", data={id, name, error, result, interrupts: []})
ChunkTaskCompleted ==
    [event |-> "tasks",
     data |-> JDict(<<"id", "name", "error", "result", "interrupts">>,
                    "id" :> JStr("n1") @@ "name" :> JStr("node") @@
                    "error" :> JNone @@ "result" :> JEmptyDict @@
                    "interrupts" :> JList(<<>>))]
\* the same with interrupts: [{value: {msg}, id}]
ChunkTaskInterrupted ==
    [event |-> "tasks",
     data |-> JDict(<<"id", "name", "error", "result", "interrupts">>,
                    "id" :> JStr("n1") @@ "name" :> JStr("node") @@
                    "error" :> JNone @@ "result" :> JEmptyDict @@
                    "interrupts" :> JList(<<InterruptItem(InterruptText)>>))]
\* a completed-node chunk that lacks the "interrupts" key
ChunkTaskMalformed ==
    [event |-> "tasks",
     data |-> JDict(<<"id", "name", "error", "result">>,
                    "id" :> JStr("n1") @@ "name" :> JStr("node") @@
                    "error" :> JNone @@ "result" :> JEmptyDict)]
\* StreamPart(event="updates", data={"__interrupt__": [{value: {msg}, id}]})
ChunkUpdatesInterrupt ==
    [event |-> "updates",
     data |-> JDict(<<"__interrupt__">>,
                    "__interrupt__" :> JList(<<InterruptItem(InterruptText)>>))]
\* StreamPart(event="events", data={"event": name, "data": {"chunk": chunk}})
ChunkEvent(name, chunk) ==
    [event |-> "events",
     data |-> JDict(<<"event", "data">>,
                    "event" :> JStr(name) @@
                    "data" :> JDict(<<"chunk">>, "chunk" :> chunk))]
ChunkModelEnd == ChunkEvent("on_chat_model_end", JEmptyDict)
\* an event of the events stream that parse_chunk has no branch for
ChunkChainStart == ChunkEvent("on_chain_start", JEmptyDict)
\* an AIMessageChunk with text content
ChunkModelStreamAI ==
    ChunkEvent("on_chat_model_stream",
               JDict(<<"content", "type">>,
                     "content" :> JStr("Hi") @@ "type" :> JStr("AIMessageChunk")))
\* an AIMessageChunk with empty content and one tool-call chunk with args
ChunkModelStreamTool ==
    ChunkEvent("on_chat_model_stream",
               JDict(<<"content", "type", "tool_call_chunks">>,
                     "content" :> JStr("") @@ "type" :> JStr("AIMessageChunk") @@
                     "tool_call_chunks" :>
                         JList(<<JDict(<<"args">>, "args" :> JStr("{"))>>)))

\* the chunks an agent run may yield (stream modes updates, tasks, events;
\* the metadata chunk opens every run)
AgentChunks ==
    {ChunkMetadata, ChunkTaskCompleted, ChunkTaskInterrupted,
     ChunkTaskMalformed, ChunkUpdatesInterrupt,
     ChunkModelStreamAI, ChunkModelStreamTool, ChunkModelEnd, ChunkChainStart}

\* ---------------------------------------------------------- parse_chunk
\* A ParsedChunk: the union of the TypedDicts, absent keys as NoneVal/FALSE.
\* res is "ok" (a dict is returned), "none" (None is returned) or "raise".
ParsedBase(event) ==
    [res |-> "ok", event |-> event, run_id |-> NoneVal,
     is_interrupted |-> FALSE, interrupt_msg |-> NoneVal,
     event_name |-> NoneVal, is_ai_message |-> FALSE, is_tool_call |-> FALSE,
     chunk_data |-> NoneVal]
ParsedNone == [ParsedBase(NoneVal) EXCEPT !.res = "none"]
ParseRaised == [ParsedBase(NoneVal) EXCEPT !.res = "raise"]

\* items[0].get("value", {}).get("msg", None) of an interrupt list
FirstInterruptMsg(items) ==
    StrOrNone(JGet(JGet(items[1], "value", JEmptyDict), "msg", JNone))

\* the `if chunk.event == "tasks":` block
ParseTasks(data) ==
    IF JIn("input", data) /\ ~JIn("result", data)
    THEN IF {"name", "id", "triggers"} \subseteq DOMAIN data.val
         THEN ParsedBase("tasks")
         ELSE ParseRaised
    ELSE IF JIn("result", data)
    THEN IF {"name", "id", "error", "interrupts"} \subseteq DOMAIN data.val
         THEN LET interrupts == JGet(data, "interrupts", JList(<<>>)).items
                  is_interrupted == Len(interrupts) > 0
              IN  [ParsedBase("tasks") EXCEPT
                      !.is_interrupted = is_interrupted,
                      !.interrupt_msg = IF is_interrupted
                                        THEN FirstInterruptMsg(interrupts)
                                        ELSE NoneVal]
         ELSE ParseRaised
    ELSE ParsedNone

\* the `if chunk.event == "updates":` block: the first item of the dict decides
ParseUpdates(data) ==
    IF Len(data.keys) = 0 THEN ParsedNone
    ELSE LET node_outputs == data.val[data.keys[1]]
         IN  IF IsList(node_outputs)
             THEN IF Len(node_outputs.items) = 0 THEN ParseRaised
                  ELSE IF IsDict(node_outputs.items[1])
                  THEN LET node_output == node_outputs.items[1]
                           found == JGet(node_output, "__interrupt__", JList(<<>>)).items
                           is_interrupted == Len(found) > 0
                       IN  [ParsedBase("updates") EXCEPT
                               !.is_interrupted = is_interrupted,
                               !.interrupt_msg = IF is_interrupted
                                                 THEN FirstInterruptMsg(found)
                                                 ELSE NoneVal]
                  ELSE ParsedNone
             ELSE IF IsDict(node_outputs) THEN ParsedBase("updates")
             ELSE ParsedNone

\* the first tool-call chunk whose args are truthy, 0 if there is none
RECURSIVE FirstWithArgs(_, _)
FirstWithArgs(items, i) ==
    IF i > Len(items) THEN 0
    ELSE IF Truthy(JGet(items[i], "args", JNone)) THEN i
    ELSE FirstWithArgs(items, i + 1)

\* the `if chunk.event == "events":` block
ParseEvents(data) ==
    LET name == StrOrNone(JGet(data, "event", JNone))
    IN  IF name = "on_chat_model_start"
        THEN [ParsedBase("events") EXCEPT !.event_name = name]
        ELSE IF name = "on_chat_model_end"
        THEN [ParsedBase("events") EXCEPT !.event_name = name]
        ELSE IF name = "on_chat_model_stream"
        THEN IF ~JIn("data", data) \/ ~IsDict(data.val["data"]) THEN ParseRaised
             ELSE LET chunk_data == JGet(data.val["data"], "chunk", JEmptyDict)
                      content == JGet(chunk_data, "content", JNone)
                      tools == JGet(chunk_data, "tool_call_chunks", JList(<<>>)).items
                      hit == FirstWithArgs(tools, 1)
                  IN  IF Truthy(content) /\ IsStr(content)
                         /\ JGet(chunk_data, "type", JNone) = JStr("AIMessageChunk")
                      THEN [ParsedBase("events") EXCEPT
                               !.event_name = name, !.is_ai_message = TRUE,
                               !.chunk_data = content.s]
                      ELSE IF hit > 0
                      THEN [ParsedBase("events") EXCEPT
                               !.event_name = name, !.is_tool_call = TRUE,
                               !.chunk_data = tools[hit].val["args"].s]
                      ELSE ParsedNone
        ELSE ParsedNone

\* the `values` blocks: an interrupt snapshot, or a snapshot with messages
ParseValues(data) ==
    IF IsDict(data) /\ JIn("__interrupt__", data)
    THEN LET items == data.val["__interrupt__"].items
         IN  IF Len(items) > 0 /\ JIn("value", items[1])
                /\ JIn("msg", items[1].val["value"])
             THEN [ParsedBase("values") EXCEPT
                      !.is_interrupted = TRUE,
                      !.interrupt_msg = StrOrNone(items[1].val["value"].val["msg"])]
             ELSE ParsedNone
    ELSE IF Truthy(JGet(data, "messages", JList(<<>>)))
    THEN ParsedBase("values")
    ELSE ParsedNone

\* LangGraphClientSDK.parse_chunk
parse_chunk(chunk) ==
    IF chunk.event = "metadata" /\ IsDict(chunk.data) /\ JIn("run_id", chunk.data)
    THEN [ParsedBase("metadata") EXCEPT !.run_id = StrOrNone(chunk.data.val["run_id"])]
    ELSE IF chunk.event = "values" THEN ParseValues(chunk.data)
    ELSE IF chunk.event = "tasks" THEN ParseTasks(chunk.data)
    ELSE IF chunk.event = "updates" THEN ParseUpdates(chunk.data)
    ELSE IF chunk.event = "events" THEN ParseEvents(chunk.data)
    ELSE ParsedNone


\* ------------------------------------------------------------------- state
VARIABLES
    task,       \* the au_chatbot_tasks row: [status, thread_id, last_run_id]
    messages,   \* the au_chatbot_messages rows, message_id = index:
                \*   [status, thread_id, task_id] (thread_id 0 is NULL)
    threads,    \* number of threads created at the agent; a thread_id is its rank
    channels,   \* channels[message_id]: the entries of stream mq:channel:<message_id>
    yielded,    \* number of chunks the agent has yielded so far, over all runs
    proc,       \* proc[q]: one create-message request and the run it schedules
    groups,     \* groups[g]: consumer group g of the stream of channel ChannelId
    subs,       \* subs[s]: one subscription (a consume generator, with its SSE
                \*   adapter if it was opened by the events endpoint)
    prompts,    \* the attachment loop of one run and the prompt it hands to the
                \*   agent: [content, files, next, fetched, prompt, sent]
    collector,  \* the chunk collector of one translation run:
                \*   [ai_message_content, fed, result]
    rsbuf       \* one run-id buffer (stream rsbuf:<run_id>) and its consumer

\* the variables of the subscription side
mqvars == <<groups, subs>>

vars == <<task, messages, threads, channels, yielded, proc, groups, subs, prompts, collector, rsbuf>>

\* the task_id of the task row the requests name, and of another task
TaskId == 1
OtherTaskId == 2
\* The create-message requests sent for the task: two clients, each sending
\* one request (one execution of the HTTP handler and the run it schedules).
Requests == {1, 2}
\* message_id values: every request inserts at most one row
MessageIds == 1 .. Cardinality(Requests)

\* The local state of request q and of the background run it schedules.
\*   pc               where the handler / the run stands (see the actions)
\*   hitl_mode, hitl_message_id   the request body (hitl_message_id 0: not given)
\*   detail           the HTTPException detail of a rejected request
\*   message_id       chatbot_message.message_id handed to the run (0: none)
\*   msg_thread       chatbot_message.thread_id of the refreshed ORM object
\*   thread_id        the run's thread_id (0: not chosen yet)
\*   created_thread   the run called create_thread()
\*   is_interrupted, last_message_type   the run's local variables
\*   pending_msg      interrupt_msg of the chunk whose ai_message is still due
\*   pending_run_id   run_id of the chunk whose last_run_id write is still due
\*   raised_at        the await that raised (NoneVal: nothing raised)
\*   done_sent        `done` entries this run appended
\*   saw_interrupt    a chunk the run took carried an interrupt
\*                    ("tasks"/"updates": the chunk's event; NoneVal: none)
\*   outcome          the status of the run's last committed status write
ProcInit ==
    [pc |-> "idle", hitl_mode |-> FALSE, hitl_message_id |-> 0, detail |-> NoneVal,
     message_id |-> 0, msg_thread |-> 0, thread_id |-> 0, created_thread |-> FALSE,
     is_interrupted |-> FALSE, last_message_type |-> "unknown",
     pending_msg |-> NoneVal, pending_run_id |-> NoneVal, raised_at |-> NoneVal,
     done_sent |-> 0, saw_interrupt |-> NoneVal, outcome |-> NoneVal]

\* ------------------------------------------- subscription state (A, B)
\* the channel the producers and the subscriptions of the model share
ChannelId == 1
\* the `consumer` query parameter / consumer_id argument of a subscription
ConsumerIds == {"a", "b"}
\* RedisStreamMessageQueue(consumer_group=...): the constructor's default
DefaultGroup == "mq-consumer-default"
\* the group of an SSE subscription, f"mq-consumer-{consumer_id}"
GroupOf(consumer_id) == IF consumer_id = "a" THEN "mq-consumer-a" ELSE "mq-consumer-b"
GroupNames == {DefaultGroup} \cup {GroupOf(c) : c \in ConsumerIds}
\* read_count, the COUNT of every XREADGROUP
ReadCount == 10
\* the subscriptions (generators) the model follows
Subs == {1, 2}

\* A consumer group of the stream as Redis keeps it:
\*   exists     XGROUP CREATE was executed
\*   last_id    the group's last-delivered id (entries 1..last_id were
\*              delivered to some consumer with ">")
\*   pel        the pending entries list: [id, consumer] of every entry
\*              delivered and not acknowledged
\*   consumers  the consumers of the group
\*   start_id   the id the group was created at (history: never changes)
NoGroup == [exists |-> FALSE, start_id |-> 0, last_id |-> 0, pel |-> {}, consumers |-> {}]

\* subs[s] is the state of one consume generator and of its caller:
\*   pc              idle | ensure | loop | reading | yield | suspended |
\*                   closing | raising | closed
\*   kind            "sse": stream_generator of the events endpoint over
\*                   consume_with_disconnect_check; "consume": consume
\*   consumer, group, stream_id_type, stream_method, auto_ack
\*                   the arguments of the generator and of its queue object
\*   batch           ids the last XREADGROUP returned and not yet yielded
\*   got             ids yielded to the caller, in order
\*   frames          the SSE frames written to the client, in order
\*   disconnected    request.is_disconnected() answered True at the loop head
\*   removed         the outcome of the XGROUP DELCONSUMER of `finally`
SubInit ==
    [pc |-> "idle", kind |-> NoneVal, consumer |-> NoneVal, group |-> NoneVal,
     stream_id_type |-> NoneVal, stream_method |-> NoneVal, auto_ack |-> FALSE,
     batch |-> <<>>, got |-> <<>>, frames |-> <<>>, disconnected |-> FALSE,
     removed |-> NoneVal]

\* The locals of a run before its attachment loop, for a message with the
\* given content and files (each file [extension, text], text being what a
\* GET of its url returns):
\*   prompt    the local `prompt`, chatbot_message_data.content at first
\*   next      the index of the file the loop looks at next
\*   fetched   per file the loop has passed: its text was fetched
\*   sent      the prompt argument of run_new_task / run_hitl_task
PromptInit(content, files) ==
    [content |-> content, files |-> files, next |-> 1, fetched |-> <<>>,
     prompt |-> content, sent |-> NoneVal]

\* The state after create_chatbot_task: one task in READY with its own thread,
\* no message, no channel entry, no request issued.
\* LangGraphChunkCollector.__init__: nothing collected, no result formatted
\* (formatted: format_result has run and `result` is what it returned)
FormatEmpty == [segments |-> <<>>, has_metadata |-> FALSE, metadata |-> <<>>,
                has_raw |-> FALSE]
CollectorInit == [ai_message_content |-> <<>>, fed |-> <<>>, formatted |-> FALSE,
                  result |-> FormatEmpty]

\* The stream rsbuf:<run_id> (entry ids are positions), whether the
\* producer has called finish, and the consumer of example_rsbuf_consumer:
\*   pc         idle, backfill, backfill_yield, tail, tail_yield, ended
\*   after_id, count   the arguments of backfill
\*   last       the consumer's `last` (the id it was given last)
\*   cursor     backfill's `last` / tail's `last_id`
\*   page       the ids of the answer that is being yielded
\*   delivered  the ids the consumer was given, in order
\*   from_tail  how many of them tail has given
RsbufInit ==
    [stream |-> <<>>, finished |-> FALSE, pc |-> "idle", after_id |-> 0, count |-> 0,
     last |-> 0, cursor |-> 0, page |-> <<>>, delivered |-> <<>>, from_tail |-> 0]

Init ==
    /\ task = [status |-> READY, thread_id |-> 1, last_run_id |-> NoneVal]
    /\ messages = <<>>
    /\ threads = 1
    /\ channels = [m \in MessageIds |-> <<>>]
    /\ yielded = 0
    /\ groups = [g \in GroupNames |-> NoGroup]
    /\ subs = [s \in Subs |-> SubInit]
    /\ proc = [q \in Requests |-> ProcInit]
    /\ prompts = PromptInit("", <<>>)
    /\ collector = CollectorInit
    /\ rsbuf = RsbufInit

\* ------------------------------------------------------- message queue (A)
\* An entry's decoded object.  send() stores the JSON of `data`; every object
\* the orchestrator sends is {type, payload} or {type: "done"}.
NoPayload == [type |-> NoneVal, message |-> NoneVal, status |-> NoneVal,
              data |-> JNone, message_id |-> 0]
Entry(type, payload) == [type |-> type, payload |-> payload]
DoneEntry == Entry("done", NoPayload)

\* send with the XADD dropped
send_lost(chans, channel_id, data) == chans

\* RedisStreamMessageQueue.send: XADD appends at the end of the stream (the
\* entry id is the position); maxlen 10000 is never reached by a bounded run.
send(chans, channel_id, data) ==
    [chans EXCEPT ![channel_id] = Append(@, data)]
\* The place of an entry that XADD MAXLEN has evicted (ids are positions, so
\* the place is kept).
EvictedEntry == Entry("evicted", NoPayload)
\* the number of entries evicted from a stream (always its oldest ones)
Evicted(stream) == Cardinality({i \in 1 .. Len(stream) : stream[i] = EvictedEntry})

\* XADD key MAXLEN ~ maxlen * data <json>: the entry is appended, and if the
\* stream is then longer than maxlen, Redis may evict `evict` of its oldest
\* entries, as many as whole nodes allow, never going below maxlen.
send_maxlen(chans, channel_id, data, evict) ==
    LET added == Append(chans[channel_id], data)
        gone == Evicted(added) + evict
    IN  [chans EXCEPT ![channel_id] =
            [i \in 1 .. Len(added) |-> IF i <= gone THEN EvictedEntry ELSE added[i]]]

\* RedisStreamMessageQueue.broadcast
broadcast(chans, channel_id, event_type, payload) ==
    send(chans, channel_id, Entry(event_type, payload))

\* ------------------------------------------------- create_chatbot_message
DetailRunning == "Chatbot task is already running an action"
DetailInvalid == "Chatbot task is not in a valid state"
DetailNoHitlId == "hitl_message_id is required in HITL mode"
DetailNoMessage == "Chatbot message not found"
DetailNotHitl == "Chatbot message is not in HITL status"
DetailInternal == "Failed to create chatbot message."

\* the statuses from which the handler starts the action
StartableStatuses == {READY, HITL, COMPLETED, FAILED, CANCELLED, ABANDONED}

\* TaskCheck without its first test (a handler that forgot lines 267-273)
TaskCheckNoRunning(status) ==
    IF status \notin StartableStatuses \cup {IN_PROGRESS} THEN DetailInvalid
    ELSE NoneVal

\* The task-status check: the detail of the HTTPException it raises, NoneVal
\* if it passes.
TaskCheck(status) ==
    IF status = IN_PROGRESS THEN DetailRunning
    ELSE IF status \notin StartableStatuses THEN DetailInvalid
    ELSE NoneVal

\* MessageCheck without the status test (a handler that forgot lines 365-370)
MessageCheckExistsOnly(found, status) ==
    IF ~found THEN DetailNoMessage ELSE NoneVal

\* The HITL-mode checks on the selected message row (`found` is FALSE when
\* scalar_one_or_none() returned None).
MessageCheck(found, status) ==
    IF ~found THEN DetailNoMessage
    ELSE IF status # HITL THEN DetailNotHitl
    ELSE NoneVal

Reject(q, detail) ==
    proc' = [proc EXCEPT ![q].pc = "rejected", ![q].detail = detail,
                         ![q].hitl_mode = FALSE, ![q].hitl_message_id = 0]

\* The handler up to its first await after the task was selected: it reads
\* the task row and checks task.status; in HITL mode it checks that
\* hitl_message_id is given.  A raised HTTPException rolls back: nothing is
\* written.
ReqReadTask(q, hitl_mode, hitl_message_id) ==
    /\ proc[q].pc = "idle"
    \* requests are numbered in the order their handlers start
    /\ \A p \in Requests : p < q => proc[p].pc # "idle"
    /\ IF TaskCheck(task.status) # NoneVal
       THEN Reject(q, TaskCheck(task.status))
       ELSE IF ~hitl_mode
       THEN proc' = [proc EXCEPT ![q].pc = "commit"]
       ELSE IF hitl_message_id = 0
       THEN Reject(q, DetailNoHitlId)
       ELSE proc' = [proc EXCEPT ![q].pc = "read_message",
                                 ![q].hitl_mode = TRUE,
                                 ![q].hitl_message_id = hitl_message_id]
    /\ UNCHANGED <<task, messages, threads, channels, yielded, groups, subs, prompts, collector, rsbuf>>

\* HITL mode: the handler selects the message row and checks its status.
ReqReadMessage(q) ==
    /\ proc[q].pc = "read_message"
    /\ LET id == proc[q].hitl_message_id
           found == id \in DOMAIN messages
           check == MessageCheck(found, IF found THEN messages[id].status ELSE NoneVal)
       IN  IF check # NoneVal
           THEN Reject(q, check)
           ELSE proc' = [proc EXCEPT ![q].pc = "commit"]
    /\ UNCHANGED <<task, messages, threads, channels, yielded, groups, subs, prompts, collector, rsbuf>>

\* The handler sets message.status = PROCESSING and task.status = IN_PROGRESS
\* on its ORM objects, commits (normal mode: the INSERT of the new message;
\* HITL mode: the UPDATE of the selected one; both: the UPDATE of the task
\* row by primary key), refreshes the message and adds the run to the
\* background tasks.  A failing commit rolls back and answers 500.
ReqCommit(q, db_ok) ==
    /\ proc[q].pc = "commit"
    /\ IF ~db_ok
       THEN /\ Reject(q, DetailInternal)
            /\ UNCHANGED <<task, messages>>
       ELSE /\ task' = [task EXCEPT !.status = IN_PROGRESS]
            /\ IF ~proc[q].hitl_mode
               THEN /\ messages' = Append(messages, [status |-> PROCESSING, thread_id |-> 0,
                                                          task_id |-> TaskId])
                    /\ proc' = [proc EXCEPT ![q].pc = "scheduled",
                                            ![q].message_id = Len(messages) + 1,
                                            ![q].msg_thread = 0]
               ELSE /\ messages' = [messages EXCEPT ![proc[q].hitl_message_id].status = PROCESSING]
                    /\ proc' = [proc EXCEPT ![q].pc = "scheduled",
                                            ![q].message_id = proc[q].hitl_message_id,
                                            ![q].msg_thread = messages[proc[q].hitl_message_id].thread_id]
    /\ UNCHANGED <<threads, channels, yielded, groups, subs, prompts, collector, rsbuf>>


\* ---------------------------------------- atask_for_create_chatbot_message
\* SelectThread without the hitl_mode case (a resume run on a fresh thread)
SelectThreadAlwaysNew(assistant_id, hitl_mode, task_thread, msg_thread, new_thread) ==
    IF assistant_id = TASK_ASSISTANT THEN task_thread ELSE new_thread

\* The thread selection rule.
SelectThread(assistant_id, hitl_mode, task_thread, msg_thread, new_thread) ==
    IF assistant_id = TASK_ASSISTANT THEN task_thread
    ELSE IF hitl_mode THEN msg_thread
    ELSE new_thread

\* create_thread() is awaited only in the third case of the rule
CreatesThread(assistant_id, hitl_mode) ==
    assistant_id # TASK_ASSISTANT /\ ~hitl_mode

\* the assistant both call sites of create_chatbot_message pass
RunAssistant == TASK_TRANSLATION

\* An exception raised inside the try block at the await `at`: control moves
\* to the except block (the loop's locals are dead from here on).
\* Raised as it would be with the await wrapped in try/except-and-log
RaisedAndLogged(self, at) ==
    [self EXCEPT !.raised_at = at]

\* The locals of a run after the await `at` raised.
Raised(self, at) ==
    [self EXCEPT !.pc = "except", !.raised_at = at,
                 !.last_message_type = "unknown",
                 !.pending_msg = NoneVal, !.pending_run_id = NoneVal]
Raise(q, at) ==
    proc' = [proc EXCEPT ![q] = Raised(@, at)]

\* The background task starts and evaluates the thread_id expression;
\* create_thread() creates a fresh thread at the agent or raises.
RunStart(q, agent_ok) ==
    /\ proc[q].pc = "scheduled"
    /\ IF CreatesThread(RunAssistant, proc[q].hitl_mode)
       THEN IF agent_ok
            THEN /\ threads' = threads + 1
                 /\ proc' = [proc EXCEPT
                        ![q].pc = "persist_thread",
                        ![q].created_thread = TRUE,
                        ![q].thread_id = SelectThread(RunAssistant, proc[q].hitl_mode,
                                             task.thread_id, proc[q].msg_thread, threads + 1)]
            ELSE /\ Raise(q, "create_thread")
                 /\ UNCHANGED threads
       ELSE /\ agent_ok
            /\ proc' = [proc EXCEPT
                   ![q].pc = "persist_thread",
                   ![q].thread_id = SelectThread(RunAssistant, proc[q].hitl_mode,
                                        task.thread_id, proc[q].msg_thread, threads + 1)]
            /\ UNCHANGED threads
    /\ UNCHANGED <<task, messages, channels, yielded, groups, subs, prompts, collector, rsbuf>>

\* UPDATE au_chatbot_messages SET thread_id WHERE message_id; commit.
\* (The attachment loop that follows reads no shared state and catches its
\* own exceptions.)
RunPersistThread(q, db_ok) ==
    /\ proc[q].pc = "persist_thread"
    /\ IF db_ok
       THEN /\ messages' = [messages EXCEPT ![proc[q].message_id].thread_id = proc[q].thread_id]
            /\ proc' = [proc EXCEPT ![q].pc = "stream"]
       ELSE /\ Raise(q, "persist_thread")
            /\ UNCHANGED messages
    /\ UNCHANGED <<task, threads, channels, yielded, groups, subs, prompts, collector, rsbuf>>

\* ------------------------------------------------ the attachment loop
\* the extensions and texts of the attached files, the contents of a message
FileExtensions == {"txt", "png"}
FileTexts == {"CTX", "MORE"}
Contents == {"hello", "translate"}
Files == [extension : FileExtensions, text : FileTexts]
FileLists == UNION {[1 .. n -> Files] : n \in 0 .. MaxFiles}

\* A run that is about to process the files of its message.
InitPrompt ==
    /\ task = [status |-> READY, thread_id |-> 1, last_run_id |-> NoneVal]
    /\ messages = <<>>
    /\ threads = 1
    /\ channels = [m \in MessageIds |-> <<>>]
    /\ yielded = 0
    /\ groups = [g \in GroupNames |-> NoGroup]
    /\ subs = [s \in Subs |-> SubInit]
    /\ proc = [q \in Requests |-> ProcInit]
    /\ prompts \in {PromptInit(c, f) : c \in Contents, f \in FileLists}
    /\ collector = CollectorInit
    /\ rsbuf = RsbufInit

\* `if file.extension != "txt": continue`
FileSkip ==
    /\ prompts.sent = NoneVal
    /\ prompts.next <= Len(prompts.files)
    /\ prompts.files[prompts.next].extension # "txt"
    /\ prompts' = [prompts EXCEPT !.next = @ + 1, !.fetched = Append(@, FALSE)]
    /\ UNCHANGED <<channels, mqvars, task, messages, threads, yielded, proc,
                   collector, rsbuf>>

\* A txt file: the GET of file.url raises (logged, `continue`) or answers
\* the text, and then `prompt = f"\n\n{file_content}"`.
FileFetch(fetch_ok) ==
    /\ prompts.sent = NoneVal
    /\ prompts.next <= Len(prompts.files)
    /\ prompts.files[prompts.next].extension = "txt"
    /\ prompts' = [prompts EXCEPT
            !.next = @ + 1,
            !.fetched = Append(@, fetch_ok),
            !.prompt = IF fetch_ok
                       THEN "\n\n" \o prompts.files[prompts.next].text
                       ELSE @]
    /\ UNCHANGED <<channels, mqvars, task, messages, threads, yielded, proc,
                   collector, rsbuf>>

\* langgraph_client.run_new_task(user_id, task_id, thread_id, assistant_id, prompt)
RunAgent ==
    /\ prompts.sent = NoneVal
    /\ prompts.next > Len(prompts.files)
    /\ prompts' = [prompts EXCEPT !.sent = prompts.prompt]
    /\ UNCHANGED <<channels, mqvars, task, messages, threads, yielded, proc,
                   collector, rsbuf>>

NextPrompt ==
    \/ FileSkip
    \/ \E fetch_ok \in BOOLEAN : FileFetch(fetch_ok)
    \/ RunAgent

SpecPrompt == InitPrompt /\ [][NextPrompt]_vars

\* a loop body that sends on metadata and tasks chunks only
IsStreamChunkNoUpdates(parsed) ==
    parsed.res = "ok" /\ parsed.event \in {"metadata", "tasks"}

\* the chunk is sent on as a langgraph_stream_chunk
IsStreamChunk(parsed) ==
    parsed.res = "ok" /\ parsed.event \in {"metadata", "tasks", "updates"}

\* last_message_type of an on_chat_model_stream chunk
MessageType(parsed) ==
    IF parsed.is_ai_message THEN "ai"
    ELSE IF parsed.is_tool_call THEN "tool"
    ELSE "unknown"

\* The entry the first broadcast of the loop body appends for a chunk, or
\* NoPayload's entry type NoneVal when the body broadcasts nothing for it.
ChunkEntry(chunk, parsed, last_message_type) ==
    IF IsStreamChunk(parsed)
    THEN Entry("langgraph_stream_chunk",
               [NoPayload EXCEPT !.type = chunk.event])
    ELSE IF parsed.res = "ok" /\ parsed.event = "events"
            /\ parsed.event_name = "on_chat_model_stream"
    THEN Entry("model_stream_chunk",
               [NoPayload EXCEPT !.type = MessageType(parsed),
                                 !.message = parsed.chunk_data,
                                 !.status = PROCESSING])
    ELSE IF parsed.res = "ok" /\ parsed.event = "events"
            /\ parsed.event_name = "on_chat_model_end"
    THEN Entry("model_stream_chunk",
               [NoPayload EXCEPT !.type = last_message_type,
                                 !.message = "",
                                 !.status = COMPLETED])
    ELSE Entry(NoneVal, NoPayload)

\* the metadata chunk whose run_id is written to the task
WritesRunId(parsed) ==
    parsed.res = "ok" /\ parsed.event = "metadata"
    /\ parsed.run_id # NoneVal /\ parsed.run_id # ""

\* the interrupt check of the loop body
ObservesInterrupt(parsed) ==
    parsed.res = "ok" /\ parsed.event = "tasks" /\ parsed.is_interrupted

\* The raw chunk carries an interrupt: a tasks chunk with a non-empty
\* "interrupts" list, or an updates chunk {"__interrupt__": [...]}.
CarriesInterrupt(chunk) ==
    \/ /\ chunk.event = "tasks"
       /\ Truthy(JGet(chunk.data, "interrupts", JList(<<>>)))
    \/ /\ chunk.event = "updates"
       /\ Truthy(JGet(chunk.data, "__interrupt__", JList(<<>>)))

\* One iteration of `async for chunk in async_generator` up to its first
\* write: the agent yields `chunk` (or the stream raises), parse_chunk parses
\* it (or raises), and the body broadcasts the entry for it (or the
\* broadcast raises and nothing is appended).
RunChunk(q, chunk, agent_ok, mq_ok) ==
    /\ proc[q].pc = "stream"
    /\ yielded < MaxChunks
    /\ yielded' = yielded + 1
    /\ LET parsed == parse_chunk(chunk)
           entry == ChunkEntry(chunk, parsed, proc[q].last_message_type)
           seen == [proc EXCEPT
                      ![q].saw_interrupt =
                          IF CarriesInterrupt(chunk) /\ @ = NoneVal THEN chunk.event ELSE @]
       IN  IF ~agent_ok
           THEN /\ Raise(q, "agent_stream")
                /\ UNCHANGED channels
           ELSE IF parsed.res = "raise"
           THEN /\ proc' = [seen EXCEPT ![q] = Raised(@, "parse")]
                /\ UNCHANGED channels
           ELSE IF entry.type # NoneVal /\ ~mq_ok
           THEN /\ proc' = [seen EXCEPT ![q] = Raised(@, "broadcast")]
                /\ UNCHANGED channels
           ELSE /\ channels' = IF entry.type # NoneVal
                               THEN send(channels, proc[q].message_id, entry)
                               ELSE channels
                /\ proc' = [seen EXCEPT
                      ![q].last_message_type =
                          IF parsed.res = "ok" /\ parsed.event = "events"
                             /\ parsed.event_name = "on_chat_model_stream"
                          THEN MessageType(parsed) ELSE @,
                      ![q].pending_run_id = IF WritesRunId(parsed) THEN parsed.run_id ELSE NoneVal,
                      ![q].pending_msg =
                          IF ObservesInterrupt(parsed)
                          THEN (IF parsed.interrupt_msg # NoneVal THEN parsed.interrupt_msg ELSE "")
                          ELSE NoneVal,
                      ![q].pc = IF WritesRunId(parsed) THEN "write_run_id"
                                ELSE IF ObservesInterrupt(parsed) THEN "interrupt"
                                ELSE "stream"]
    /\ UNCHANGED <<task, messages, threads, groups, subs, prompts, collector, rsbuf>>

\* a loop body that drops the run_id instead of writing it
RunForgetRunId(q, db_ok) ==
    /\ proc[q].pc = "write_run_id"
    /\ proc' = [proc EXCEPT ![q].pc = "stream", ![q].pending_run_id = NoneVal]
    /\ UNCHANGED <<task, messages, threads, channels, yielded, groups, subs, prompts, collector, rsbuf>>

\* UPDATE au_chatbot_tasks SET last_run_id WHERE task_id; commit.
RunWriteRunId(q, db_ok) ==
    /\ proc[q].pc = "write_run_id"
    /\ IF db_ok
       THEN /\ task' = [task EXCEPT !.last_run_id = proc[q].pending_run_id]
            /\ proc' = [proc EXCEPT ![q].pc = "stream", ![q].pending_run_id = NoneVal]
       ELSE /\ Raise(q, "last_run_id")
            /\ UNCHANGED task
    /\ UNCHANGED <<messages, threads, channels, yielded, groups, subs, prompts, collector, rsbuf>>

\* The HITL broadcast of the loop body: ai_message {type: ai, message,
\* status: HITL, message_id}; then is_interrupted = True.
RunInterrupt(q, mq_ok) ==
    /\ proc[q].pc = "interrupt"
    /\ IF mq_ok
       THEN /\ channels' = broadcast(channels, proc[q].message_id, "ai_message",
                               [NoPayload EXCEPT !.type = "ai",
                                                 !.message = proc[q].pending_msg,
                                                 !.status = HITL,
                                                 !.message_id = proc[q].message_id])
            /\ proc' = [proc EXCEPT ![q].pc = "stream", ![q].pending_msg = NoneVal,
                                    ![q].is_interrupted = TRUE]
       ELSE /\ Raise(q, "broadcast")
            /\ UNCHANGED channels
    /\ UNCHANGED <<task, messages, threads, yielded, groups, subs, prompts, collector, rsbuf>>

\* TerminalStatus without the is_interrupted branch
TerminalStatusIgnoresInterrupt(is_interrupted) == COMPLETED

\* the status both rows get after the loop
TerminalStatus(is_interrupted) ==
    IF is_interrupted THEN HITL ELSE COMPLETED

\* one transaction: UPDATE the message row, UPDATE the task row, commit
WriteStatus(q, status) ==
    /\ messages' = [messages EXCEPT ![proc[q].message_id].status = status]
    /\ task' = [task EXCEPT !.status = status]

\* The agent's stream is exhausted (the async for ends) and the run makes its
\* terminal write; `done` is still to be sent unless the run was interrupted.
RunTerminal(q, db_ok) ==
    /\ proc[q].pc = "stream"
    /\ IF db_ok
       THEN /\ WriteStatus(q, TerminalStatus(proc[q].is_interrupted))
            /\ proc' = [proc EXCEPT
                   ![q].pc = IF proc[q].is_interrupted THEN "finished" ELSE "send_done",
                   ![q].last_message_type = "unknown",
                   ![q].outcome = TerminalStatus(proc[q].is_interrupted)]
       ELSE /\ Raise(q, "terminal_write")
            /\ UNCHANGED <<task, messages>>
    /\ UNCHANGED <<threads, channels, yielded, groups, subs, prompts, collector, rsbuf>>

\* a send whose pipeline raises after the XADD was executed
RunSendDoneRaising(q, mq_ok) ==
    /\ proc[q].pc = "send_done"
    /\ channels' = send(channels, proc[q].message_id, DoneEntry)
    /\ proc' = IF mq_ok
               THEN [proc EXCEPT ![q].pc = "finished", ![q].done_sent = @ + 1]
               ELSE [proc EXCEPT ![q] = [Raised(@, "done_send") EXCEPT !.done_sent = @ + 1]]
    /\ UNCHANGED <<task, messages, threads, yielded, groups, subs, prompts, collector, rsbuf>>

\* mq.send(message_id, {"type": "done"})
RunSendDone(q, mq_ok) ==
    /\ proc[q].pc = "send_done"
    /\ IF mq_ok
       THEN /\ channels' = send(channels, proc[q].message_id, DoneEntry)
            /\ proc' = [proc EXCEPT ![q].pc = "finished",
                                    ![q].done_sent = @ + 1]
       ELSE /\ Raise(q, "done_send")
            /\ UNCHANGED channels
    /\ UNCHANGED <<task, messages, threads, yielded, groups, subs, prompts, collector, rsbuf>>

\* The except block: one transaction writes FAILED to both rows.  If that
\* write raises too, the exception leaves the background task.  Either way
\* the caught exception is gone with the block (raised_at is reset).
RunExcept(q, db_ok) ==
    /\ proc[q].pc = "except"
    /\ IF db_ok
       THEN /\ WriteStatus(q, FAILED)
            /\ proc' = [proc EXCEPT ![q].pc = "finished", ![q].outcome = FAILED, ![q].raised_at = NoneVal]
       ELSE /\ proc' = [proc EXCEPT ![q].pc = "crashed", ![q].raised_at = NoneVal]
            /\ UNCHANGED <<task, messages>>
    /\ UNCHANGED <<threads, channels, yielded, groups, subs, prompts, collector, rsbuf>>

\* --------------------------------------- the translation orchestrator
\* process_langgraph_chunk: the entry one call broadcasts for a parsed chunk
\* (type NoneVal: nothing is broadcast).  last_message_type is a local of
\* the call, set to "ai" on entry.
process_langgraph_chunk(parsed) ==
    LET last_message_type == "ai"
    IN  IF parsed.res # "ok" THEN Entry(NoneVal, NoPayload)
        ELSE IF parsed.event \in {"metadata", "tasks", "updates"}
        THEN Entry("langgraph_stream_chunk", [NoPayload EXCEPT !.type = parsed.event])
        ELSE IF parsed.event = "events" /\ parsed.event_name = "on_chat_model_stream"
        THEN Entry("model_stream_chunk",
                   [NoPayload EXCEPT !.type = MessageType(parsed),
                                     !.message = parsed.chunk_data,
                                     !.status = "processing"])
        ELSE IF parsed.event = "events" /\ parsed.event_name = "on_chat_model_end"
        THEN Entry("model_stream_chunk",
                   [NoPayload EXCEPT !.type = last_message_type,
                                     !.message = "",
                                     !.status = "completed"])
        ELSE Entry(NoneVal, NoPayload)

\* bg_atask_create_file_translation at its `async for`: proc[1] holds the
\* position of the background task, channel ChannelId is rsmq_channel_id.
InitTranslation ==
    /\ task = [status |-> READY, thread_id |-> 1, last_run_id |-> NoneVal]
    /\ messages = <<>>
    /\ threads = 1
    /\ channels = [m \in MessageIds |-> <<>>]
    /\ yielded = 0
    /\ groups = [g \in GroupNames |-> NoGroup]
    /\ subs = [s \in Subs |-> SubInit]
    /\ proc = [q \in Requests |-> IF q = 1 THEN [ProcInit EXCEPT !.pc = "scheduled"]
                                           ELSE ProcInit]
    /\ prompts = PromptInit("", <<>>)
    /\ collector = CollectorInit
    /\ rsbuf = RsbufInit

\* The exception an await or check of the translation task raises at `site`:
\* its class name, its str() and whether the class is a ValueError.  The
\* three validation failures are raised as ValueError (lines 84, 95 and, as
\* the handler documents at 196-199, the unsupported assistant); the agent,
\* the database and Redis raise their own classes.
ExceptionAt(site) ==
    IF site = "preset_missing"
    THEN [kind |-> "ValueError", text |-> "File preset not found: P1", value_error |-> TRUE]
    ELSE IF site = "original_missing"
    THEN [kind |-> "ValueError", text |-> "Original text not found for file: F1",
          value_error |-> TRUE]
    ELSE IF site = "unsupported_assistant"
    THEN [kind |-> "ValueError", text |-> "Unsupported assistant ID: X", value_error |-> TRUE]
    ELSE IF site \in {"create_thread", "agent_stream"}
    THEN [kind |-> "HTTPException", text |-> "503: LangGraph service unavailable",
          value_error |-> FALSE]
    ELSE IF site \in {"status_write", "terminal_write"}
    THEN [kind |-> "OperationalError", text |-> "connection to server failed",
          value_error |-> FALSE]
    ELSE IF site = "parse"
    THEN [kind |-> "KeyError", text |-> "'interrupts'", value_error |-> FALSE]
    ELSE [kind |-> "ConnectionError", text |-> "Error connecting to redis",
          value_error |-> FALSE]

\* a handler that stores str(e) whatever the exception is
FailureMessageRaw(e) == e.text

\* the message the except block that catches e stores: `except ValueError`
\* stores str(e), `except Exception` the class name only
FailureMessage(e) ==
    IF e.value_error THEN e.text
    ELSE "System error (" \o e.kind \o "). Check the server logs for details."

\* what STEPS 1-5 can end with
SetupResults == {"ok", "create_thread", "preset_missing", "unsupported_assistant",
                 "original_missing", "status_write"}

\* STEPS 1-5: create_thread, the preset, the assistant, the original text,
\* and the write of status "in_progress"; the first one that fails raises.
TranslationSetup(result) ==
    /\ proc[1].pc = "scheduled"
    /\ proc' = IF result = "ok"
               THEN [proc EXCEPT ![1].pc = "stream", ![1].outcome = IN_PROGRESS]
               ELSE [proc EXCEPT ![1].pc = "except", ![1].raised_at = result]
    /\ UNCHANGED <<task, messages, threads, channels, yielded, groups, subs, prompts, collector, rsbuf>>

\* One iteration of the translation loop: the agent yields `chunk` (or the
\* stream raises), parse_chunk parses it (or raises), and
\* process_langgraph_chunk broadcasts its entry (or the broadcast raises);
\* any exception leaves the loop for the except block.
TranslationChunk(chunk, agent_ok, mq_ok) ==
    /\ proc[1].pc = "stream"
    /\ yielded < MaxChunks
    /\ yielded' = yielded + 1
    /\ LET parsed == parse_chunk(chunk)
           entry == process_langgraph_chunk(parsed)
       IN  IF ~agent_ok \/ parsed.res = "raise" \/ (entry.type # NoneVal /\ ~mq_ok)
           THEN /\ proc' = [proc EXCEPT
                       ![1].pc = "except",
                       ![1].raised_at = IF ~agent_ok THEN "agent_stream"
                                        ELSE IF parsed.res = "raise" THEN "parse"
                                        ELSE "broadcast"]
                /\ UNCHANGED channels
           ELSE /\ channels' = IF entry.type # NoneVal
                               THEN send(channels, ChannelId, entry)
                               ELSE channels
                \* ai_agent_data["last_run_id"] = parsed_chunk["run_id"]
                \* (saw_interrupt records that a parsed chunk had is_interrupted;
                \* the loop itself never looks at it)
                /\ proc' = [proc EXCEPT
                       ![1].pending_run_id =
                           IF WritesRunId(parsed) THEN parsed.run_id ELSE @,
                       ![1].saw_interrupt =
                           IF parsed.res = "ok" /\ parsed.is_interrupted /\ @ = NoneVal
                           THEN parsed.event ELSE @]
    /\ UNCHANGED <<task, messages, threads, groups, subs, prompts, collector, rsbuf>>

\* The agent's stream is exhausted: _update_translation_with_result writes
\* status "completed" (proc[1].outcome is the status of the translation row).
TranslationEnd(db_ok) ==
    /\ proc[1].pc = "stream"
    /\ proc' = IF db_ok
               THEN [proc EXCEPT ![1].pc = "send_done", ![1].outcome = COMPLETED]
               ELSE [proc EXCEPT ![1].pc = "except", ![1].raised_at = "terminal_write"]
    /\ UNCHANGED <<task, messages, threads, channels, yielded, groups, subs, prompts, collector, rsbuf>>

\* mq.send(rsmq_channel_id, {"type": "done"})
TranslationSendDone(mq_ok) ==
    /\ proc[1].pc = "send_done"
    /\ IF mq_ok
       THEN /\ channels' = send(channels, ChannelId, DoneEntry)
            /\ proc' = [proc EXCEPT ![1].pc = "finished", ![1].done_sent = @ + 1]
       ELSE /\ proc' = [proc EXCEPT ![1].pc = "except", ![1].raised_at = "done_send"]
            /\ UNCHANGED channels
    /\ UNCHANGED <<task, messages, threads, yielded, groups, subs, prompts, collector, rsbuf>>

\* The except blocks: _update_translation_status writes status "failed" and
\* the message (proc[1].detail is the message column); an exception of that
\* write is logged and swallowed.  raised_at stays as the record of what
\* failed.
TranslationExcept(db_ok) ==
    /\ proc[1].pc = "except"
    /\ proc' = [proc EXCEPT
            ![1].pc = "finished",
            ![1].outcome = IF db_ok THEN FAILED ELSE @,
            ![1].detail = IF db_ok THEN FailureMessage(ExceptionAt(proc[1].raised_at))
                          ELSE @]
    /\ UNCHANGED <<task, messages, threads, channels, yielded, groups, subs, prompts, collector, rsbuf>>

NextTranslation ==
    \/ \E result \in SetupResults : TranslationSetup(result)
    \/ \E chunk \in AgentChunks : \E agent_ok \in BOOLEAN : \E mq_ok \in BOOLEAN :
           TranslationChunk(chunk, agent_ok, mq_ok)
    \/ \E db_ok \in BOOLEAN : TranslationEnd(db_ok)
    \/ \E mq_ok \in BOOLEAN : TranslationSendDone(mq_ok)
    \/ \E db_ok \in BOOLEAN : TranslationExcept(db_ok)

SpecTranslation == InitTranslation /\ [][NextTranslation]_vars

\* ------------------------------------------------------------ specification
Next ==
    \/ \E q \in Requests : \E hitl_message_id \in {0} \cup MessageIds :
           ReqReadTask(q, hitl_message_id > 0, hitl_message_id)
    \/ \E q \in Requests : ReqReadTask(q, TRUE, 0)
    \/ \E q \in Requests : ReqReadMessage(q)
    \/ \E q \in Requests : \E db_ok \in BOOLEAN : ReqCommit(q, db_ok)
    \/ \E q \in Requests : \E agent_ok \in BOOLEAN : RunStart(q, agent_ok)
    \/ \E q \in Requests : \E db_ok \in BOOLEAN : RunPersistThread(q, db_ok)
    \/ \E q \in Requests : \E chunk \in AgentChunks : \E agent_ok, mq_ok \in BOOLEAN :
           RunChunk(q, chunk, agent_ok, mq_ok)
    \/ \E q \in Requests : \E db_ok \in BOOLEAN : RunWriteRunId(q, db_ok)
    \/ \E q \in Requests : \E mq_ok \in BOOLEAN : RunInterrupt(q, mq_ok)
    \/ \E q \in Requests : \E db_ok \in BOOLEAN : RunTerminal(q, db_ok)
    \/ \E q \in Requests : \E mq_ok \in BOOLEAN : RunSendDone(q, mq_ok)
    \/ \E q \in Requests : \E db_ok \in BOOLEAN : RunExcept(q, db_ok)

Spec == Init /\ [][Next]_vars

\* ------------------------------------------------- out-of-band cancellation
\* An operator sets the status column of the task row to CANCELLED while a
\* run of the task is in its chunk loop (a write made directly on the row;
\* no endpoint of the service writes CANCELLED).
OperatorCancel ==
    /\ task.status = IN_PROGRESS
    /\ \E q \in Requests : proc[q].pc \in {"stream", "write_run_id", "interrupt"}
    /\ task' = [task EXCEPT !.status = CANCELLED]
    /\ UNCHANGED <<messages, threads, channels, yielded, proc, groups, subs, prompts, collector, rsbuf>>

NextCancel ==
    \/ Next
    \/ OperatorCancel

\* the orchestrator with an operator who may cancel the task
SpecCancel == Init /\ [][NextCancel]_vars

\* ------------------------------------------------ Redis stream commands (A)
\* the variables of the orchestrator side
runvars == <<task, messages, threads, yielded, proc, prompts, collector, rsbuf>>

Min(a, b) == IF a < b THEN a ELSE b

\* the ids of a set, ascending (a stream and a PEL are kept in id order)
Ascending(ids) ==
    [i \in 1 .. Cardinality(ids) |->
        CHOOSE x \in ids : Cardinality({y \in ids : y < x}) = i - 1]

\* XGROUP CREATE that sets an existing group back to the given id
xgroup_create_anew(grps, group, id, stream_len) ==
    LET start == IF id = "0" THEN 0 ELSE stream_len
    IN  [grps EXCEPT ![group] =
            [exists |-> TRUE, start_id |-> start, last_id |-> start,
             pel |-> {}, consumers |-> {}]]

\* XGROUP CREATE key group id MKSTREAM: a new group starts after entry 0
\* (id "0") or after the last entry (id "$"); an existing group answers
\* BUSYGROUP and stays as it is.
xgroup_create(grps, group, id, stream_len) ==
    IF grps[group].exists THEN grps
    ELSE LET start == IF id = "0" THEN 0 ELSE stream_len
         IN  [grps EXCEPT ![group] =
                [exists |-> TRUE, start_id |-> start, last_id |-> start,
                 pel |-> {}, consumers |-> {}]]

\* ensure_group that always creates the group at "$"
ensure_group_from_end(grps, group, stream_id_type, stream_len, redis_ok) ==
    IF redis_ok THEN xgroup_create(grps, group, "$", stream_len) ELSE grps

\* RedisStreamMessageQueue.ensure_group: every error is swallowed
ensure_group(grps, group, stream_id_type, stream_len, redis_ok) ==
    IF redis_ok
    THEN xgroup_create(grps, group,
                       IF stream_id_type = "stream_from_beginning" THEN "0" ELSE "$",
                       stream_len)
    ELSE grps

\* XREADGROUP that answers the newest entry first
xreadgroup_ids_newest_first(grps, group, consumer, id, stream_len) ==
    LET n == Min(ReadCount, stream_len - grps[group].last_id)
    IN  IF id = ">"
        THEN [i \in 1 .. n |-> grps[group].last_id + n + 1 - i]
        ELSE <<>>

\* The ids XREADGROUP GROUP group consumer COUNT ReadCount STREAMS key id
\* returns: with ">" the entries after the group's last-delivered id, with
\* "0" the consumer's own pending entries from the start.
xreadgroup_ids(grps, group, consumer, id, stream_len) ==
    IF id = ">"
    THEN [i \in 1 .. Min(ReadCount, stream_len - grps[group].last_id) |->
            grps[group].last_id + i]
    ELSE LET mine == Ascending({e.id : e \in {x \in grps[group].pel :
                                                 x.consumer = consumer}})
         IN  SubSeq(mine, 1, Min(ReadCount, Len(mine)))

\* XREADGROUP that leaves the group's last-delivered id where it was
xreadgroup_no_advance(grps, group, consumer, id, stream_len) ==
    LET ids == xreadgroup_ids(grps, group, consumer, id, stream_len)
    IN  [grps EXCEPT
            ![group].consumers = @ \cup {consumer},
            ![group].pel = IF id = ">"
                           THEN @ \cup {[id |-> ids[i], consumer |-> consumer] :
                                           i \in 1 .. Len(ids)}
                           ELSE @]

\* The group after that XREADGROUP: the consumer exists; with ">" the
\* returned entries are pending for it and the last-delivered id advances.
xreadgroup(grps, group, consumer, id, stream_len) ==
    LET ids == xreadgroup_ids(grps, group, consumer, id, stream_len)
    IN  [grps EXCEPT
            ![group].consumers = @ \cup {consumer},
            ![group].last_id = IF id = ">" THEN @ + Len(ids) ELSE @,
            ![group].pel = IF id = ">"
                           THEN @ \cup {[id |-> ids[i], consumer |-> consumer] :
                                           i \in 1 .. Len(ids)}
                           ELSE @]

\* XACK key group id
xack(grps, group, id) ==
    [grps EXCEPT ![group].pel = {e \in @ : e.id # id}]

\* XGROUP DELCONSUMER that drops the pending entries and keeps the member
xgroup_delconsumer_keeps_member(grps, group, consumer) ==
    [grps EXCEPT ![group].pel = {e \in @ : e.consumer # consumer}]

\* XGROUP DELCONSUMER key group consumer: the consumer goes, and with it the
\* pending entries it owned
xgroup_delconsumer(grps, group, consumer) ==
    [grps EXCEPT ![group].consumers = @ \ {consumer},
                 ![group].pel = {e \in @ : e.consumer # consumer}]

\* ------------------------------------------------------- SSE framing (B)
\* sse_event(payload, event=...): the event name, the payload's type, the
\* payload's id (an entry's id; 0 if the payload has none) and the payload's
\* consumer (NoneVal if the payload has none)
Frame(event, type, id) ==
    [event |-> event, type |-> type, id |-> id, consumer |-> NoneVal]
\* the connection frame, {"type": "connected", "consumer": consumer_id}
ConnectedFrame(consumer_id) ==
    [Frame("system", "connected", 0) EXCEPT !.consumer = consumer_id]
\* sse_event({"type": "error", "message": str(e)}, event="error")
ErrorFrame == Frame("error", "error", 0)

\* a framing that treats done like any other entry
EntryFrameAllData(id, data) == Frame(data.type, "data", id)

\* the frame stream_generator builds for one entry
EntryFrame(id, data) ==
    LET event_type == data.type
    IN  Frame(IF event_type = "done" THEN "system" ELSE event_type,
              IF event_type = "done" THEN "done" ELSE "data",
              id)

\* the id argument of XREADGROUP
ReadId(stream_method) == IF stream_method = "new_messages_only" THEN ">" ELSE "0"

\* A ">" read starts at the first entry after the group's last-delivered
\* id that is still in the stream: entries evicted by MAXLEN are passed over.
PastEvicted(grps, group, id, stream) ==
    IF id = ">" /\ grps[group].last_id < Evicted(stream)
    THEN [grps EXCEPT ![group].last_id = Evicted(stream)]
    ELSE grps

\* the entry a subscription yielded last
LastEntry(s) == channels[ChannelId][subs[s].got[Len(subs[s].got)]]

\* --------------------------------------------------------- subscriptions
\* stream_generator without its connection frame
SseStartWithoutGreeting(s, consumer_id, method) ==
    /\ subs[s].pc = "idle"
    /\ \A p \in Subs : p < s => subs[p].pc # "idle"
    /\ subs' = [subs EXCEPT ![s] =
          [SubInit EXCEPT
             !.pc = "ensure", !.kind = "sse", !.consumer = consumer_id,
             !.group = GroupOf(consumer_id),
             !.stream_id_type = IF method = "s" THEN "stream_from_beginning"
                                ELSE "stream_from_new_only",
             !.stream_method = IF method \in {"s", "n"} THEN "new_messages_only"
                               ELSE "pending_messages",
             !.auto_ack = FALSE]]
    /\ UNCHANGED <<groups, channels, runvars>>

\* GET /channels/{channel_id}/events?consumer=..&method=..: stream_generator
\* builds its queue object, writes the connection frame and only then calls
\* consume_with_disconnect_check.  (Subscriptions are numbered in the order
\* in which they start.)
SseStart(s, consumer_id, method) ==
    /\ subs[s].pc = "idle"
    /\ \A p \in Subs : p < s => subs[p].pc # "idle"
    /\ subs' = [subs EXCEPT ![s] =
          [SubInit EXCEPT
             !.pc = "ensure", !.kind = "sse", !.consumer = consumer_id,
             !.group = GroupOf(consumer_id),
             !.stream_id_type = IF method = "s" THEN "stream_from_beginning"
                                ELSE "stream_from_new_only",
             !.stream_method = IF method \in {"s", "n"} THEN "new_messages_only"
                               ELSE "pending_messages",
             !.auto_ack = FALSE,
             !.frames = <<ConnectedFrame(consumer_id)>>]]
    /\ UNCHANGED <<groups, channels, runvars>>

\* mq.consume(channel_id, consumer_id, auto_ack=.., stream_method=..) on a
\* queue object with the constructor's defaults
ConsumeStart(s, consumer_id, stream_method, auto_ack) ==
    /\ subs[s].pc = "idle"
    /\ \A p \in Subs : p < s => subs[p].pc # "idle"
    /\ subs' = [subs EXCEPT ![s] =
          [SubInit EXCEPT
             !.pc = "ensure", !.kind = "consume", !.consumer = consumer_id,
             !.group = DefaultGroup,
             !.stream_id_type = "stream_from_beginning",
             !.stream_method = stream_method,
             !.auto_ack = auto_ack]]
    /\ UNCHANGED <<groups, channels, runvars>>

\* await self.ensure_group(channel_id)
SubEnsureGroup(s, redis_ok) ==
    /\ subs[s].pc = "ensure"
    /\ groups' = ensure_group(groups, subs[s].group, subs[s].stream_id_type,
                              Len(channels[ChannelId]), redis_ok)
    /\ subs' = [subs EXCEPT ![s].pc = "loop"]
    /\ UNCHANGED <<channels, runvars>>

\* a loop head that asks the disconnect predicate and reads all the same
SubPollBlind(s, is_disconnected) ==
    /\ subs[s].pc = "loop"
    /\ subs[s].kind = "sse" \/ ~is_disconnected
    /\ subs' = [subs EXCEPT ![s].pc = "reading",
                            ![s].disconnected = is_disconnected]
    /\ UNCHANGED <<groups, channels, runvars>>

\* The head of `while True`: consume_with_disconnect_check awaits the
\* disconnect predicate (request.is_disconnected, whose answer is an input
\* of the step) and breaks on True; otherwise, and always in consume, which
\* has no predicate, XREADGROUP is issued.
SubPoll(s, is_disconnected) ==
    /\ subs[s].pc = "loop"
    /\ subs[s].kind = "sse" \/ ~is_disconnected
    /\ subs' = [subs EXCEPT ![s].pc = IF is_disconnected THEN "closing" ELSE "reading",
                            ![s].disconnected = is_disconnected]
    /\ UNCHANGED <<groups, channels, runvars>>

\* XREADGROUP answers: an error (the group is missing, or the connection
\* failed) is logged and the loop continues after a second; an empty answer
\* continues; entries are handed to the inner for loop.
SubRead(s, redis_ok) ==
    /\ subs[s].pc = "reading"
    /\ IF ~redis_ok \/ ~groups[subs[s].group].exists
       THEN /\ subs' = [subs EXCEPT ![s].pc = "loop"]
            /\ UNCHANGED groups
       ELSE LET id == ReadId(subs[s].stream_method)
                grps == PastEvicted(groups, subs[s].group, id, channels[ChannelId])
                ids == xreadgroup_ids(grps, subs[s].group, subs[s].consumer, id,
                                      Len(channels[ChannelId]))
            IN  /\ groups' = xreadgroup(grps, subs[s].group, subs[s].consumer, id,
                                        Len(channels[ChannelId]))
                /\ subs' = [subs EXCEPT ![s].batch = ids,
                                        ![s].pc = IF ids = <<>> THEN "loop" ELSE "yield"]
    /\ UNCHANGED <<channels, runvars>>

\* yield msg_id, payload; the SSE adapter frames the entry and writes it.
\* A subscription is followed for at most MaxEntries yields.
SubYield(s) ==
    /\ subs[s].pc = "yield"
    /\ Len(subs[s].got) < MaxEntries
    /\ LET id == Head(subs[s].batch)
       IN  subs' = [subs EXCEPT
              ![s].pc = "suspended",
              ![s].batch = Tail(@),
              ![s].got = Append(@, id),
              ![s].frames = IF subs[s].kind = "sse"
                            THEN Append(@, EntryFrame(id, channels[ChannelId][id]))
                            ELSE @]
    /\ UNCHANGED <<groups, channels, runvars>>

\* The caller asks for the next entry: the generator resumes after the
\* yield, acknowledges the entry if auto_ack (an XACK error is suppressed)
\* and goes on with the batch or with the next pass of the loop.
SubResume(s, redis_ok) ==
    /\ subs[s].pc = "suspended"
    /\ ~(subs[s].kind = "sse" /\ LastEntry(s).type = "done")
    /\ groups' = IF subs[s].auto_ack /\ redis_ok
                 THEN xack(groups, subs[s].group, subs[s].got[Len(subs[s].got)])
                 ELSE groups
    /\ subs' = [subs EXCEPT ![s].pc = IF subs[s].batch = <<>> THEN "loop" ELSE "yield"]
    /\ UNCHANGED <<channels, runvars>>

\* stream_generator breaks after the frame of a done entry; the suspended
\* generator is closed and its finally block runs.
SseDone(s) ==
    /\ subs[s].pc = "suspended"
    /\ subs[s].kind = "sse"
    /\ LastEntry(s).type = "done"
    /\ subs' = [subs EXCEPT ![s].pc = "closing", ![s].batch = <<>>]
    /\ UNCHANGED <<groups, channels, runvars>>

\* The caller of consume stops iterating (break, aclose) while the
\* generator is suspended at its yield: the XACK after the yield never runs.
CallerClose(s) ==
    /\ subs[s].pc = "suspended"
    /\ subs[s].kind = "consume"
    /\ subs' = [subs EXCEPT ![s].pc = "closing", ![s].batch = <<>>]
    /\ UNCHANGED <<groups, channels, runvars>>

\* The task that drives the generator is cancelled while XREADGROUP is
\* awaited; the server may have executed the command already (served), in
\* which case its answer is never seen.
SubCancel(s, served) ==
    /\ subs[s].pc = "reading"
    /\ groups' = IF served /\ groups[subs[s].group].exists
                 THEN xreadgroup(PastEvicted(groups, subs[s].group,
                                             ReadId(subs[s].stream_method),
                                             channels[ChannelId]),
                                 subs[s].group, subs[s].consumer,
                                 ReadId(subs[s].stream_method), Len(channels[ChannelId]))
                 ELSE groups
    /\ subs' = [subs EXCEPT ![s].pc = "closing"]
    /\ UNCHANGED <<channels, runvars>>

\* An exception is raised in the body of the generator's loop outside the
\* try around XREADGROUP (json.loads in _decode_payload on the entry about
\* to be yielded): it leaves the generator through its finally block and
\* reaches the except clause of stream_generator.
SubRaise(s) ==
    /\ subs[s].pc = "yield"
    /\ subs[s].kind = "sse"
    /\ subs' = [subs EXCEPT ![s].pc = "raising", ![s].batch = <<>>]
    /\ UNCHANGED <<groups, channels, runvars>>

\* stream_generator that swallows the exception without a frame
ClosingFramesSilent(s) == subs[s].frames

\* The frames of s once its generator has ended: an exception that came out
\* of the generator is answered with one error frame.
ClosingFrames(s) ==
    IF subs[s].pc = "raising" THEN Append(subs[s].frames, ErrorFrame)
    ELSE subs[s].frames

\* finally: with suppress(Exception): await xgroup_delconsumer(...); then,
\* in stream_generator, except Exception: yield the error frame.
SubClose(s, redis_ok) ==
    /\ subs[s].pc \in {"closing", "raising"}
    /\ groups' = IF redis_ok /\ groups[subs[s].group].exists
                 THEN xgroup_delconsumer(groups, subs[s].group, subs[s].consumer)
                 ELSE groups
    /\ subs' = [subs EXCEPT ![s].pc = "closed",
                            ![s].frames = ClosingFrames(s),
                            ![s].removed = redis_ok /\ groups[subs[s].group].exists]
    /\ UNCHANGED <<channels, runvars>>

\* the types of the entries the producers of the channel send
EntryTypes == {"ai_message", "done"}

\* A producer of the channel: mq.send(channel_id, data) on a queue object
\* with the constructor's defaults (ensure_group, then XADD).
MqSend(type) ==
    /\ Len(channels[ChannelId]) < MaxEntries
    /\ groups' = ensure_group(groups, DefaultGroup, "stream_from_beginning",
                              Len(channels[ChannelId]), TRUE)
    /\ channels' = send(channels, ChannelId, Entry(type, NoPayload))
    /\ UNCHANGED <<subs, runvars>>

\* A producer whose queue object has maxlen = StreamMaxLen.
MqSendMaxLen(type, evict) ==
    /\ Len(channels[ChannelId]) < MaxEntries
    /\ evict <= Len(channels[ChannelId]) + 1 - Evicted(channels[ChannelId]) - StreamMaxLen
    /\ groups' = ensure_group(groups, DefaultGroup, "stream_from_beginning",
                              Len(channels[ChannelId]), TRUE)
    /\ channels' = send_maxlen(channels, ChannelId, Entry(type, NoPayload), evict)
    /\ UNCHANGED <<subs, runvars>>

SseMethods == {"s", "n", "p"}
StreamMethods == {"new_messages_only", "pending_messages"}

\* the consumer ids a subscription may be given: the first subscription is
\* named "a", a later one has the same name or another one
ConsumerIdsOf(s) == IF s = 1 THEN {"a"} ELSE ConsumerIds

\* the steps common to both kinds of subscription, and the producer
NextSub ==
    \/ \E s \in Subs : \E redis_ok \in BOOLEAN : SubEnsureGroup(s, redis_ok)
    \/ \E s \in Subs : \E is_disconnected \in BOOLEAN : SubPoll(s, is_disconnected)
    \/ \E s \in Subs : \E redis_ok \in BOOLEAN : SubRead(s, redis_ok)
    \/ \E s \in Subs : SubYield(s)
    \/ \E s \in Subs : \E redis_ok \in BOOLEAN : SubResume(s, redis_ok)
    \/ \E s \in Subs : \E served \in BOOLEAN : SubCancel(s, served)
    \/ \E s \in Subs : \E redis_ok \in BOOLEAN : SubClose(s, redis_ok)
    \/ \E type \in EntryTypes : MqSend(type)

\* SSE subscriptions of the events endpoint on one channel
NextSSE ==
    \/ \E s \in Subs : \E c \in ConsumerIdsOf(s) : \E method \in SseMethods :
           SseStart(s, c, method)
    \/ \E s \in Subs : SseDone(s)
    \/ \E s \in Subs : SubRaise(s)
    \/ NextSub

SpecSSE == Init /\ [][NextSSE]_vars

\* callers of consume on one channel, in the default group
NextMQ ==
    \/ \E s \in Subs : \E c \in ConsumerIdsOf(s) : \E m \in StreamMethods :
           \E auto_ack \in BOOLEAN : ConsumeStart(s, c, m, auto_ack)
    \/ \E s \in Subs : CallerClose(s)
    \/ NextSub

SpecMQ == Init /\ [][NextMQ]_vars

\* callers of consume reading ">" on a channel whose producer's maxlen is
\* reached
NextMaxLen ==
    \/ \E s \in Subs : \E c \in ConsumerIdsOf(s) : \E auto_ack \in BOOLEAN :
           ConsumeStart(s, c, "new_messages_only", auto_ack)
    \/ \E s \in Subs : CallerClose(s)
    \/ \E s \in Subs : \E redis_ok \in BOOLEAN : SubEnsureGroup(s, redis_ok)
    \/ \E s \in Subs : \E is_disconnected \in BOOLEAN : SubPoll(s, is_disconnected)
    \/ \E s \in Subs : \E redis_ok \in BOOLEAN : SubRead(s, redis_ok)
    \/ \E s \in Subs : SubYield(s)
    \/ \E s \in Subs : \E redis_ok \in BOOLEAN : SubResume(s, redis_ok)
    \/ \E s \in Subs : \E served \in BOOLEAN : SubCancel(s, served)
    \/ \E s \in Subs : \E redis_ok \in BOOLEAN : SubClose(s, redis_ok)
    \/ \E type \in EntryTypes : \E evict \in 0 .. MaxEntries : MqSendMaxLen(type, evict)

SpecMaxLen == Init /\ [][NextMaxLen]_vars

\* ================================================================= properties
\* positions of a scheduled run that has not ended
RunPcs == {"scheduled", "persist_thread", "stream", "write_run_id", "interrupt",
           "send_done", "except"}
\* positions a request never leaves
EndPcs == {"rejected", "finished", "crashed"}
\* the requests whose run is scheduled and has not ended
ActiveRuns == {q \in Requests : proc[q].pc \in RunPcs}
\* request q took a step
Stepped(q) == proc'[q] # proc[q]
\* a step of request q left the database, the channels and the other requests alone
NoSideEffect(q) ==
    /\ task' = task
    /\ messages' = messages
    /\ channels' = channels
    /\ threads' = threads
    /\ \A p \in Requests \ {q} : proc'[p] = proc[p]
    /\ {p \in Requests : proc'[p].pc \in RunPcs} = ActiveRuns

\* ---------------------------------------------------------------------- C1
\* C1: at most one orchestrator run is active for the task at any time (of
\* two interleaved create-message requests at most one passes the status
\* check and schedules a run).
C1_AtMostOneActiveRun ==
    Cardinality(ActiveRuns) <= 1

\* ---------------------------------------------------------------------- C2
\* C2: a create-message request that finds task.status = IN_PROGRESS is
\* rejected with "Chatbot task is already running an action" and has no side
\* effect: no message row is created, no status changes, no entry is
\* appended, no run is scheduled (a rejected request never moves again).
C2_RunningTaskRejects ==
    [][\A q \in Requests :
          /\ (proc[q].pc = "idle" /\ Stepped(q) /\ task.status = IN_PROGRESS)
                => /\ proc'[q].pc = "rejected"
                   /\ proc'[q].detail = DetailRunning
                   /\ proc'[q].message_id = 0
                   /\ NoSideEffect(q)
          /\ proc[q].pc = "rejected" => proc'[q] = proc[q]]_vars

C2_Witness ==
    \E q \in Requests :
        /\ proc[q].pc = "rejected"
        /\ proc[q].detail = DetailRunning
        /\ task.status = IN_PROGRESS
        /\ Len(messages) = 1

C4_CleanRunCompletesWithOneDone ==
    [][\A q \in Requests :
          /\ (~proc[q].is_interrupted /\ proc[q].pc = "stream" /\ Stepped(q))
                => \/ proc'[q].pc \in {"stream", "write_run_id", "interrupt"}
                   \/ proc'[q].pc = "except" /\ proc'[q].raised_at # NoneVal
                   \/ /\ proc'[q].pc = "send_done"
                      /\ proc'[q].outcome = COMPLETED
                      /\ task'.status = COMPLETED
                      /\ messages'[proc[q].message_id].status = COMPLETED
                      /\ proc'[q].done_sent = 0
          /\ (proc[q].pc = "send_done" /\ Stepped(q))
                => \/ proc'[q].pc = "except" /\ proc'[q].raised_at = "done_send"
                   \/ /\ proc'[q].pc = "finished"
                      /\ proc'[q].done_sent = 1
                      /\ channels'[proc[q].message_id]
                             = Append(channels[proc[q].message_id], DoneEntry)
                      /\ task' = task /\ messages' = messages
          /\ proc[q].pc # "send_done" => proc'[q].done_sent = proc[q].done_sent]_vars

C4_Witness ==
    \E q \in Requests :
        /\ proc[q].pc = "finished"
        /\ ~proc[q].is_interrupted
        /\ proc[q].outcome = COMPLETED
        /\ proc[q].done_sent = 1
        /\ task.status = COMPLETED
        /\ messages[proc[q].message_id].status = COMPLETED
        /\ Len(channels[proc[q].message_id]) = 3
        /\ channels[proc[q].message_id][3] = DoneEntry

\* ---------------------------------------------------------------------- C5
\* C5: an exception raised at any await of a run ends the run with
\* task.status = FAILED, message.status = FAILED and an error string stored
\* on the message record.
C5_ExceptionEndsFailedWithError ==
    [][\A q \in Requests :
          (proc[q].pc = "except" /\ Stepped(q))
              => /\ task'.status = FAILED
                 /\ messages'[proc[q].message_id].status = FAILED
                 /\ "error" \in DOMAIN messages'[proc[q].message_id]]_vars

\* ---------------------------------------------------------------------- C6
\* C6: a run that took a chunk carrying an interrupt (a tasks chunk with
\* interrupts, or an updates chunk {"__interrupt__": [...]}) never writes
\* COMPLETED and never appends `done`.
C6_AnyInterruptIsHonoured ==
    \A q \in Requests :
        proc[q].saw_interrupt # NoneVal
            => proc[q].outcome # COMPLETED /\ proc[q].done_sent = 0

\* ---------------------------------------------------------------------- C7
\* C7: a HITL-mode request passes the message check only if the message row
\* it selects exists and has status HITL; a HITL-mode request that is
\* rejected (no hitl_message_id, no such message, or a message not in HITL)
\* changes no task or message status and no scheduled run.
C7_ResumeNeedsHitlMessage ==
    [][\A q \in Requests :
          /\ (proc[q].pc = "read_message" /\ Stepped(q))
                => IF /\ proc[q].hitl_message_id \in DOMAIN messages
                      /\ messages[proc[q].hitl_message_id].status = HITL
                   THEN proc'[q].pc = "commit" /\ NoSideEffect(q)
                   ELSE /\ proc'[q].pc = "rejected"
                        /\ proc'[q].detail \in {DetailNoMessage, DetailNotHitl}
                        /\ NoSideEffect(q)
          /\ (proc[q].pc = "idle" /\ proc'[q].detail = DetailNoHitlId)
                => proc'[q].pc = "rejected" /\ NoSideEffect(q)
          /\ (proc[q].pc = "commit" /\ proc[q].hitl_mode /\ proc'[q].pc = "scheduled")
                => /\ proc'[q].message_id = proc[q].hitl_message_id
                   /\ Len(messages') = Len(messages)
          /\ proc[q].pc = "rejected" => proc'[q].pc = "rejected"]_vars

C7_Witness ==
    \E q \in Requests :
        /\ proc[q].pc = "rejected"
        /\ proc[q].detail = DetailNotHitl
        /\ Len(messages) = 1
        /\ messages[1].status = COMPLETED

\* ---------------------------------------------------------------------- C8
\* C8: every entry a run appends to its channel in the chunk loop (every
\* entry but `done`) is appended while task.status = IN_PROGRESS and the
\* run's message.status = PROCESSING.
C8_BroadcastOnlyWhileInProgress ==
    [][\A m \in MessageIds :
          (/\ Len(channels'[m]) > Len(channels[m])
           /\ channels'[m][Len(channels'[m])].type # "done")
              => /\ task.status = IN_PROGRESS
                 /\ messages[m].status = PROCESSING]_vars

\* ---------------------------------------------------------------------- C9
\* C9: a HITL-resume run uses the thread_id stored on its message and creates
\* no thread; when its stream ends without interrupt and nothing raises it
\* writes COMPLETED to both rows and appends `done` to the same channel.  A
\* normal run (TASK_TRANSLATION) has stored the thread it created on its
\* message whenever it is in, or past, the chunk loop.
C9_ThreadOfRun ==
    [][\A q \in Requests :
          /\ (proc'[q].hitl_mode /\ proc'[q].pc \in RunPcs \ {"scheduled", "except"})
                => /\ proc'[q].thread_id = messages'[proc'[q].message_id].thread_id
                   /\ proc'[q].thread_id # 0
                   /\ ~proc'[q].created_thread
          /\ (proc[q].hitl_mode /\ Stepped(q)) => threads' = threads
          /\ (~proc'[q].hitl_mode /\ proc'[q].pc \in {"stream", "write_run_id", "interrupt", "send_done"})
                => /\ proc'[q].created_thread
                   /\ proc'[q].thread_id # 0
                   /\ messages'[proc'[q].message_id].thread_id = proc'[q].thread_id
          /\ (proc[q].hitl_mode /\ ~proc[q].is_interrupted /\ proc[q].pc = "stream"
              /\ proc'[q].pc = "send_done")
                => /\ task'.status = COMPLETED
                   /\ messages'[proc[q].hitl_message_id].status = COMPLETED
          /\ (proc[q].hitl_mode /\ proc[q].pc = "send_done" /\ proc'[q].pc = "finished")
                => channels'[proc[q].hitl_message_id]
                       = Append(channels[proc[q].hitl_message_id], DoneEntry)]_vars

C9_Witness ==
    \E q \in Requests :
        /\ proc[q].hitl_mode
        /\ proc[q].pc = "finished"
        /\ proc[q].outcome = COMPLETED
        /\ proc[q].done_sent = 1
        /\ ~proc[q].created_thread
        /\ threads = 2
        /\ proc[q].thread_id = 2
        /\ messages[proc[q].message_id].thread_id = 2
        /\ task.status = COMPLETED
        /\ messages[proc[q].message_id].status = COMPLETED
        /\ channels[proc[q].message_id][Len(channels[proc[q].message_id])] = DoneEntry

C11_CancelSurvivesTerminalWrite ==
    [][\A q \in Requests :
          (/\ task.status = CANCELLED
           /\ proc[q].pc = "stream"
           /\ proc'[q].pc \in {"send_done", "finished"})
              => task'.status = CANCELLED]_vars

\* ------------------------------------------------ subscription properties
\* <<1, .., n>>
UpTo(n) == [i \in 1 .. n |-> i]
\* the generator of the subscription is inside its loop
Live(s) == subs[s].pc \in {"loop", "reading", "yield", "suspended"}
\* no other subscription uses the group of s
Fresh(s) == \A p \in Subs \ {s} : subs[p].group # subs[s].group
\* the subscription reads the stream from its first entry with ">"
FromBeginning(s) ==
    /\ subs[s].pc # "idle"
    /\ subs[s].stream_id_type = "stream_from_beginning"
    /\ subs[s].stream_method = "new_messages_only"

ReadsFromStart(s) ==
    /\ subs[s].pc # "idle"
    /\ subs[s].kind = "sse"
    /\ subs[s].stream_method = "new_messages_only"
    /\ groups[subs[s].group].exists
    /\ groups[subs[s].group].start_id = 0
\* the subscription has nothing left to read or to yield
CaughtUp(s) ==
    /\ Live(s)
    /\ subs[s].batch = <<>>
    /\ groups[subs[s].group].last_id = Len(channels[ChannelId])
    /\ subs[s].pc # "suspended"

\* the frames of the entries s yielded: those after the connection frame,
\* one per yield
EntryFrames(s) == SubSeq(subs[s].frames, 2, 1 + Len(subs[s].got))

Range(seq) == {seq[i] : i \in 1 .. Len(seq)}
\* the entries XREADGROUP handed to the subscription: yielded or in hand
Received(s) == Range(subs[s].got) \cup Range(subs[s].batch)
\* a caller of consume that reads ">" in the default group
ReadsNew(s) ==
    /\ subs[s].pc # "idle"
    /\ subs[s].kind = "consume"
    /\ subs[s].stream_method = "new_messages_only"

AcksEntry(g, id) ==
    \E s \in Subs :
        /\ subs[s].pc = "suspended"
        /\ subs'[s].pc \in {"loop", "yield"}
        /\ subs[s].auto_ack
        /\ subs[s].group = g
        /\ subs[s].got[Len(subs[s].got)] = id

\* C15: an entry that is pending in a group (delivered, not acknowledged)
\* stays in the group's pending list until it is acknowledged; in
\* particular it is still pending after its consumer has terminated.
C15_UnackedEntryStaysPending ==
    [][\A g \in GroupNames :
          \A e \in groups[g].pel :
              e \in groups'[g].pel \/ AcksEntry(g, e.id)]_vars

\* --------------------------------------------------------------------- C16
\* C16: the entries one subscription yields are in strictly increasing id
\* order, whatever its stream method and its auto_ack.
C16_YieldsStrictlyIncreasing ==
    \A s \in Subs :
        \A i, j \in 1 .. Len(subs[s].got) :
            i < j => subs[s].got[i] < subs[s].got[j]

\* --------------------------------------------------------------------- C17
\* the step ends subscription s
Terminates(s) == subs[s].pc # "closed" /\ subs'[s].pc = "closed"

\* C17 as stated: when a subscription terminates, its consumer is not a
\* member of its group.
C17_TerminationRemovesConsumer ==
    [][\A s \in Subs :
          Terminates(s) =>
              subs[s].consumer \notin groups'[subs[s].group].consumers]_vars

\* C17, amended: a subscription terminates only through its finally block,
\* which issues XGROUP DELCONSUMER once; when the command succeeds the
\* consumer is not a member of the group after the step, and when it fails
\* the error is suppressed and the group is left as it was.
C17_TerminationAttemptsRemoval ==
    [][\A s \in Subs :
          Terminates(s) =>
              /\ subs[s].pc \in {"closing", "raising"}
              /\ subs'[s].removed = TRUE =>
                     subs[s].consumer \notin groups'[subs[s].group].consumers
              /\ subs'[s].removed = FALSE => groups' = groups]_vars
\* a subscription that had joined its group ended on a done entry and was
\* removed from the group
C17_Witness ==
    \E s \in Subs :
        /\ subs[s].pc = "closed"
        /\ subs[s].removed = TRUE
        /\ subs[s].got # <<>>
        /\ LastEntry(s).type = "done"
        /\ groups[subs[s].group].exists
        /\ subs[s].consumer \notin groups[subs[s].group].consumers

\* --------------------------------------------------------------------- C18
\* the entries pending for the consumer of s in its group
PendingOf(grps, s) == {e \in grps[subs[s].group].pel : e.consumer = subs[s].consumer}
\* the disconnect predicate of SSE subscription s has answered True
Disconnected(s) == subs[s].kind = "sse" /\ subs[s].disconnected
\* the step is the pass of the loop of s in which the predicate answers True
SeesDisconnect(s) == subs[s].pc = "loop" /\ subs'[s].disconnected

\* C18 as stated: the pass of the loop in which the disconnect predicate
\* answers True issues no read, afterwards the subscription neither reads
\* nor yields, and when it has ended its consumer is out of the group and
\* nothing is pending for it.
C18_DisconnectRemovesConsumer ==
    [][\A s \in Subs :
          /\ SeesDisconnect(s) => subs'[s].pc = "closing" /\ groups' = groups
          /\ Disconnected(s) =>
                /\ subs'[s].pc \in {"closing", "closed"}
                /\ subs'[s].got = subs[s].got
                /\ Terminates(s) =>
                       /\ subs[s].consumer \notin groups'[subs[s].group].consumers
                       /\ PendingOf(groups', s) = {}]_vars

\* C18, amended: the pass of the loop in which the disconnect predicate
\* answers True issues no read and goes to the finally block; afterwards
\* the subscription neither reads nor yields; if the XGROUP DELCONSUMER of
\* the finally block succeeds, the consumer is out of the group and nothing
\* is pending for it; if it fails, the group is left as it was.
C18_DisconnectStopsReadsAndAttemptsRemoval ==
    [][\A s \in Subs :
          /\ SeesDisconnect(s) => subs'[s].pc = "closing" /\ groups' = groups
          /\ Disconnected(s) =>
                /\ subs'[s].pc \in {"closing", "closed"}
                /\ subs'[s].got = subs[s].got
                /\ (Terminates(s) /\ subs'[s].removed = TRUE) =>
                       /\ subs[s].consumer \notin groups'[subs[s].group].consumers
                       /\ PendingOf(groups', s) = {}
                /\ (Terminates(s) /\ subs'[s].removed = FALSE) => groups' = groups]_vars
\* a subscription that disconnected mid-stream (after a frame that was not
\* done, with entries of the stream still unread) has ended and is out of
\* its group
C18_Witness ==
    \E s \in Subs :
        /\ Disconnected(s)
        /\ subs[s].pc = "closed"
        /\ subs[s].removed = TRUE
        /\ subs[s].got # <<>>
        /\ LastEntry(s).type # "done"
        /\ Len(subs[s].got) < Len(channels[ChannelId])
        /\ subs[s].consumer \notin groups[subs[s].group].consumers
        /\ PendingOf(groups, s) = {}

\* --------------------------------------------------------------------- C19
\* C19: the first frame of every SSE subscription is the system frame
\* {type: connected, consumer: <its consumer id>}; it is the only frame when
\* the generator is about to open its group (before any read), every later
\* frame is the frame of an entry the subscription yielded or a closing
\* error frame, and no later frame is a connection frame.
C19_ConnectedFrameComesFirst ==
    \A s \in Subs :
        subs[s].kind = "sse" =>
            /\ subs[s].frames # <<>>
            /\ subs[s].frames[1] = ConnectedFrame(subs[s].consumer)
            /\ subs[s].frames[1].event = "system"
            /\ subs[s].pc = "ensure" => Len(subs[s].frames) = 1
            /\ Len(subs[s].frames) = 1 + Len(subs[s].got)
                   + (IF subs[s].frames[Len(subs[s].frames)] = ErrorFrame THEN 1 ELSE 0)
            /\ \A i \in 2 .. Len(subs[s].frames) : subs[s].frames[i].type # "connected"
\* a subscription that was sent its connection frame and then entry frames
C19_Witness ==
    \E s \in Subs :
        /\ subs[s].kind = "sse"
        /\ Len(subs[s].frames) > 2
        /\ subs[s].frames[1] = ConnectedFrame(subs[s].consumer)
        /\ subs[s].frames[2].id = subs[s].got[1]

\* --------------------------------------------------------------------- C20
\* C20: each entry an SSE subscription yields is framed once, in order; a
\* done entry is framed with event "system" and payload type "done" and its
\* frame is the last frame of the subscription; every other entry is framed
\* with its own type as event name and payload type "data".
C20_DoneFrameIsLastAndSystem ==
    \A s \in Subs :
        subs[s].kind = "sse" =>
            \A i \in 1 .. Len(subs[s].got) :
                LET data == channels[ChannelId][subs[s].got[i]]
                    frame == subs[s].frames[i + 1]
                IN  /\ i + 1 <= Len(subs[s].frames)
                    /\ frame.id = subs[s].got[i]
                    /\ data.type = "done" =>
                           /\ frame.event = "system"
                           /\ frame.type = "done"
                           /\ i + 1 = Len(subs[s].frames)
                    /\ data.type # "done" =>
                           /\ frame.event = data.type
                           /\ frame.type = "data"
\* a subscription was sent the frame of an entry and then the done frame,
\* and has ended
C20_Witness ==
    \E s \in Subs :
        /\ subs[s].kind = "sse"
        /\ subs[s].pc = "closed"
        /\ Len(subs[s].frames) = 3
        /\ subs[s].frames[2].event = "ai_message"
        /\ subs[s].frames[2].type = "data"
        /\ subs[s].frames[3].event = "system"
        /\ subs[s].frames[3].type = "done"

\* --------------------------------------------------------------------- C21
\* the step is one of subscription s on its way out after an exception
Erroring(s) ==
    \/ subs[s].pc = "yield" /\ subs'[s].pc = "raising"
    \/ subs[s].pc = "raising" /\ subs'[s].pc = "closed"

\* C21: an exception raised inside an SSE subscription ends it with exactly
\* one error frame, which is its last frame; the steps from the raise to the
\* end leave the stream's entries and every other group as they were, and
\* an ended subscription does nothing more.
C21_ExceptionEndsWithOneErrorFrame ==
    [][\A s \in Subs :
          /\ Erroring(s) =>
                /\ channels' = channels
                /\ \A g \in GroupNames \ {subs[s].group} : groups'[g] = groups[g]
          /\ (subs[s].pc = "raising" /\ subs'[s] # subs[s]) =>
                /\ subs'[s].pc = "closed"
                /\ subs'[s].frames = Append(subs[s].frames, ErrorFrame)
          /\ subs[s].pc = "closed" => subs'[s] = subs[s]
          /\ \A i \in 1 .. Len(subs'[s].frames) :
                 subs'[s].frames[i] = ErrorFrame =>
                     i = Len(subs'[s].frames) /\ subs'[s].pc = "closed"]_vars
\* a subscription that had framed an entry raised, was sent the error frame
\* and has ended, while another subscription is in a group of its own
C21_Witness ==
    \E s \in Subs :
        /\ subs[s].pc = "closed"
        /\ Len(subs[s].frames) = 3
        /\ subs[s].frames[3] = ErrorFrame
        /\ \E p \in Subs \ {s} : Live(p) /\ subs[p].group # subs[s].group
                                         /\ groups[subs[p].group].pel # {}

\* --------------------------------------------------------------------- C22
\* The event loop keeps running a generator that can take a step, the
\* client keeps consuming frames, and of the reads a generator retries, one
\* is eventually answered without error.
FairSub(s) ==
    /\ WF_vars(\E redis_ok \in BOOLEAN : SubEnsureGroup(s, redis_ok))
    /\ WF_vars(SubPoll(s, FALSE))
    /\ SF_vars(SubRead(s, TRUE))
    /\ WF_vars(SubYield(s))
    /\ WF_vars(\E redis_ok \in BOOLEAN : SubResume(s, redis_ok))
SpecSSEFair == SpecSSE /\ \A s \in Subs : FairSub(s)

\* s was opened with method=p and its group exists
PendingFirst(s) ==
    /\ subs[s].kind = "sse"
    /\ subs[s].stream_method = "pending_messages"
    /\ groups[subs[s].group].exists
\* entry i was appended after the group of s was created
AppendedAfter(s, i) ==
    /\ i > groups[subs[s].group].start_id
    /\ i <= Len(channels[ChannelId])

Reconnected(s) ==
    \E p \in Subs :
        /\ p < s
        /\ subs[p].pc = "closed"
        /\ Disconnected(p)
        /\ FromBeginning(p)
        /\ subs[p].got # <<>>
        /\ subs[p].consumer = subs[s].consumer

\* C23: a client that reconnects with method=s after a disconnect, under the
\* consumer id it used before, is given the stream from its first entry:
\* what it has been given is exactly the entries delivered to its group.
C23_ReconnectReplaysFromFirstEntry ==
    \A s \in Subs :
        (/\ subs[s].kind = "sse"
         /\ FromBeginning(s)
         /\ Reconnected(s)
         /\ Live(s)
         /\ groups[subs[s].group].exists) =>
            subs[s].got \o subs[s].batch = UpTo(groups[subs[s].group].last_id)

\* --------------------------------------------------------------------- C24
\* entry i of the stream is still owed to group g: not yet delivered to it,
\* or delivered and not acknowledged
Unacked(grps, g, i) ==
    /\ grps[g].exists
    /\ i > grps[g].last_id \/ i \in {e.id : e \in grps[g].pel}

\* C24: a send never removes from the stream an entry that is still
\* unacked (pending or not yet delivered) for a group of the channel.
C24_MaxLenKeepsUnackedEntries ==
    [][\A i \in 1 .. Len(channels[ChannelId]) :
          (/\ channels[ChannelId][i] # EvictedEntry
           /\ \E g \in GroupNames : Unacked(groups, g, i))
              => channels'[ChannelId][i] # EvictedEntry]_vars

\* --------------------------------------------------------------------- C25
\* C25: ensure_group is idempotent: once the group exists, a further call
\* (by a subscription or by a producer's send, with either stream_id_type,
\* answered by Redis or not) leaves the stream entries, the group's
\* last-delivered id and its pending list unchanged.
C25_EnsureGroupIdempotent ==
    [][/\ \A s \in Subs :
            (/\ subs[s].pc = "ensure" /\ subs'[s].pc = "loop"
             /\ groups[subs[s].group].exists)
                => groups' = groups /\ channels' = channels
       /\ \A g \in GroupNames : groups'[g].exists =>
            \A t \in {"stream_from_beginning", "stream_from_end"} :
               \A redis_ok \in BOOLEAN :
                  ensure_group(groups', g, t, Len(channels'[ChannelId]), redis_ok)
                     = groups']_vars

\* a second caller has called ensure_group, and nothing else, on a group
\* that has delivered an entry which is still pending
C25_Witness ==
    \E s \in Subs :
       /\ subs[s].pc = "loop"
       /\ groups[subs[s].group].exists
       /\ subs[s].consumer \notin groups[subs[s].group].consumers
       /\ groups[subs[s].group].last_id > 0
       /\ groups[subs[s].group].pel # {}

\* --------------------------------------------------------------------- C26
\* the original prompt followed, for each txt file whose fetch succeeded, in
\* attachment order, by a blank line and the file's text
PromptWithFiles(content, files, fetched) ==
    LET upto[i \in 0 .. Len(files)] ==
            IF i = 0 THEN content
            ELSE upto[i - 1] \o (IF files[i].extension = "txt" /\ fetched[i]
                                 THEN "\n\n" \o files[i].text
                                 ELSE "")
    IN  upto[Len(files)]

\* C26: the prompt handed to the agent is the original prompt followed, for
\* each txt attachment whose fetch succeeded, in attachment order, by a
\* blank line and the file's text; other attachments contribute nothing.
C26_PromptIsContentPlusTxtFiles ==
    prompts.sent # NoneVal =>
        prompts.sent = PromptWithFiles(prompts.content, prompts.files, prompts.fetched)

\* --------------------------------------------------------------------- C27
\* The run of a new message has broadcast the agent's Metadata chunk (the
\* only Metadata chunk of AgentChunks carries run_id "R1"): the chunk is on
\* the channel of the run's own message.
EmittedRunId(q) ==
    IF /\ proc[q].message_id # 0 /\ ~proc[q].hitl_mode
       /\ \E i \in 1 .. Len(channels[proc[q].message_id]) :
             channels[proc[q].message_id][i] =
                Entry("langgraph_stream_chunk", [NoPayload EXCEPT !.type = "metadata"])
    THEN "R1" ELSE NoneVal

\* C27 as stated: at the terminal status write of a run in which the agent
\* emitted Metadata{run_id = R}, task.last_run_id = R is already committed.
C27_RunIdCommittedBeforeTerminalWrite ==
    [][\A q \in Requests :
          (/\ proc[q].outcome = NoneVal /\ proc'[q].outcome # NoneVal
           /\ EmittedRunId(q) # NoneVal)
              => task'.last_run_id = EmittedRunId(q)]_vars

\* C27, amended: the UPDATE that follows a Metadata chunk with a non-empty
\* run_id, when it does not raise, commits task.last_run_id = R and leaves
\* task.status alone, and the run has made no terminal write yet; a run
\* makes its COMPLETED or HITL write only with no run_id write outstanding,
\* so such a run has committed the run_id it received; when the UPDATE
\* raises, last_run_id keeps its value and the run goes to the except block.
C27_RunIdCommittedUnlessRaised ==
    [][\A q \in Requests :
          /\ (proc[q].pc = "write_run_id" /\ proc'[q].pc # "write_run_id")
                => /\ proc[q].outcome = NoneVal /\ proc'[q].outcome = NoneVal
                   /\ task'.status = task.status
                   /\ \/ /\ proc'[q].pc = "stream"
                         /\ task'.last_run_id = proc[q].pending_run_id
                         /\ proc[q].pending_run_id = "R1"
                      \/ /\ proc'[q].pc = "except"
                         /\ proc'[q].raised_at = "last_run_id"
                         /\ task'.last_run_id = task.last_run_id
          /\ (proc[q].outcome = NoneVal /\ proc'[q].outcome \in {COMPLETED, HITL})
                => /\ proc[q].pc = "stream" /\ proc[q].pending_run_id = NoneVal
                   /\ task'.last_run_id = task.last_run_id
                   /\ EmittedRunId(q) # NoneVal => task'.last_run_id = EmittedRunId(q)
          /\ task'.last_run_id \in {task.last_run_id, "R1"}]_vars

\* a run received the run_id, committed it and then made its COMPLETED write
C27_Witness ==
    \E q \in Requests :
       /\ proc[q].outcome = COMPLETED
       /\ EmittedRunId(q) = "R1"
       /\ task.last_run_id = "R1"
       /\ task.status = COMPLETED

\* --------------------------------------------------------------------- C28
\* entry i of the stream is a model_stream_chunk frame with the given status
IsModelFrame(stream, i, status) ==
    stream[i].type = "model_stream_chunk" /\ stream[i].payload.status = status

\* C28: in the translation orchestrator (as in the chatbot one) the
\* terminator frame broadcast on on_chat_model_end carries the type of the
\* most recent on_chat_model_stream frame of the run.
C28_TerminatorCarriesLastMessageType ==
    LET stream == channels[ChannelId]
    IN  \A i \in 1 .. Len(stream) : \A j \in 1 .. Len(stream) :
           (/\ j < i
            /\ IsModelFrame(stream, i, "completed")
            /\ IsModelFrame(stream, j, "processing")
            /\ \A k \in j + 1 .. i - 1 : ~IsModelFrame(stream, k, "processing"))
               => stream[i].payload.type = stream[j].payload.type

\* --------------------------------------------------------------------- C29
\* The requests sent in turn: a client sends its request only when the
\* request before it, and the run that one scheduled, have ended.
InTurn(q) == \A p \in Requests : p < q => proc[p].pc \in EndPcs

NextInTurn ==
    \/ \E q \in Requests : \E hitl_message_id \in {0} \cup MessageIds :
           InTurn(q) /\ ReqReadTask(q, hitl_message_id > 0, hitl_message_id)
    \/ \E q \in Requests : InTurn(q) /\ ReqReadTask(q, TRUE, 0)
    \/ \E q \in Requests : ReqReadMessage(q)
    \/ \E q \in Requests : \E db_ok \in BOOLEAN : ReqCommit(q, db_ok)
    \/ \E q \in Requests : \E agent_ok \in BOOLEAN : RunStart(q, agent_ok)
    \/ \E q \in Requests : \E db_ok \in BOOLEAN : RunPersistThread(q, db_ok)
    \/ \E q \in Requests : \E chunk \in AgentChunks : \E agent_ok, mq_ok \in BOOLEAN :
           RunChunk(q, chunk, agent_ok, mq_ok)
    \/ \E q \in Requests : \E db_ok \in BOOLEAN : RunWriteRunId(q, db_ok)
    \/ \E q \in Requests : \E mq_ok \in BOOLEAN : RunInterrupt(q, mq_ok)
    \/ \E q \in Requests : \E db_ok \in BOOLEAN : RunTerminal(q, db_ok)
    \/ \E q \in Requests : \E mq_ok \in BOOLEAN : RunSendDone(q, mq_ok)
    \/ \E q \in Requests : \E db_ok \in BOOLEAN : RunExcept(q, db_ok)

SpecInTurn == Init /\ [][NextInTurn]_vars

\* the chunks parse_chunk parses as Metadata, Tasks or Updates, and those
\* it returns nothing for
StreamPartChunks ==
    {chunk \in AgentChunks :
        parse_chunk(chunk).res = "ok"
        /\ parse_chunk(chunk).event \in {"metadata", "tasks", "updates"}}
UnparsedChunks == {chunk \in AgentChunks : parse_chunk(chunk).res = "none"}

\* every channel keeps its entries, in order, over the step
KeepsOrder ==
    \/ channels' = channels
    \/ \A m \in MessageIds :
          /\ Len(channels'[m]) >= Len(channels[m])
          /\ \A i \in 1 .. Len(channels[m]) : channels'[m][i] = channels[m][i]

\* the step appends the langgraph_stream_chunk entry of the chunk to the
\* channel of run q
AppendsStreamPart(q, chunk) ==
    proc[q].message_id # 0 =>
    channels'[proc[q].message_id] =
       Append(channels[proc[q].message_id],
              Entry("langgraph_stream_chunk", [NoPayload EXCEPT !.type = chunk.event]))

LastAppended(q) ==
    channels'[proc[q].message_id][Len(channels'[proc[q].message_id])]

\* C30: at the step in which a run ends, the last entry on its channel is
\* the ai_message entry with status HITL if it ends in HITL and `done` if it
\* ends COMPLETED; a run that ends FAILED has appended neither.
C30_LastEntryMatchesOutcome ==
    [][\A q \in Requests :
          /\ (proc[q].outcome # HITL /\ proc'[q].outcome = HITL)
                => /\ LastAppended(q).type = "ai_message"
                   /\ LastAppended(q).payload.status = HITL
          /\ (proc[q].pc # "finished" /\ proc'[q].pc = "finished"
              /\ proc'[q].outcome = COMPLETED)
                => LastAppended(q) = DoneEntry
          /\ (proc[q].outcome # FAILED /\ proc'[q].outcome = FAILED)
                => ~proc[q].is_interrupted /\ proc[q].done_sent = 0]_vars

\* --------------------------------------------------------------------- C31
\* C31: a translation run that has observed a chunk with is_interrupted
\* does not persist status completed and does not append `done`.
C31_InterruptedTranslationNotCompleted ==
    proc[1].saw_interrupt # NoneVal =>
        /\ proc[1].outcome # COMPLETED
        /\ proc[1].done_sent = 0

\* --------------------------------------------------------------------- C32
\* the translation run has failed and its handler has run
TranslationFailed == proc[1].pc = "finished" /\ proc[1].raised_at # NoneVal

\* the message C32 states for a failure at `site`
StatedMessage(site) ==
    IF site \in {"preset_missing", "original_missing", "unsupported_assistant"}
    THEN ExceptionAt(site).text
    ELSE "System error (" \o ExceptionAt(site).kind
            \o "). Check the server logs for details."

MaxParts == 3

IsOpen(c) == c \in {"{", "q{"}
IsClose(c) == c = "}"
IsSpace(c) == c = " "
IsMarker(c) == c \in {"m1", "m2"}
\* int(match.group(1))
Sid(c) == IF c = "m1" THEN 1 ELSE 2

\* str.strip()
RECURSIVE strip(_)
strip(s) ==
    IF s = <<>> THEN s
    ELSE IF IsSpace(s[1]) THEN strip(Tail(s))
    ELSE IF IsSpace(s[Len(s)]) THEN strip(SubSeq(s, 1, Len(s) - 1))
    ELSE s

\* \s* from position p: the first position that is not whitespace
RECURSIVE SkipSpace(_, _)
SkipSpace(s, p) ==
    IF p <= Len(s) /\ IsSpace(s[p]) THEN SkipSpace(s, p + 1) ELSE p

\* [^{}]*(?:\{[^{}]*\}[^{}]*)*\} from position p, one "{" being open: the
\* position of the closing brace, 0 when the pattern does not match (a
\* third level of braces, or the end of the text)
RECURSIVE ObjectEnd(_, _, _)
ObjectEnd(s, p, depth) ==
    IF p > Len(s) THEN 0
    ELSE IF IsClose(s[p]) THEN IF depth = 1 THEN p ELSE ObjectEnd(s, p + 1, 1)
    ELSE IF IsOpen(s[p]) THEN IF depth = 2 THEN 0 ELSE ObjectEnd(s, p + 1, 2)
    ELSE ObjectEnd(s, p + 1, depth)

\* followed by \s*(?:<translated_text>|$)
TagOrEndFollows(s, j) ==
    LET k == SkipSpace(s, j + 1) IN k > Len(s) \/ s[k] = "<t>"
TagFollows(s, j) ==
    LET k == SkipSpace(s, j + 1) IN k <= Len(s) /\ s[k] = "<t>"

Lowest(S) == CHOOSE i \in S : \A k \in S : i <= k

\* the first pattern of _extract_metadata_json, re.search: the leftmost match
PrimaryStarts(s) ==
    {i \in 1..Len(s) : /\ IsOpen(s[i])
                       /\ ObjectEnd(s, i + 1, 1) # 0
                       /\ TagOrEndFollows(s, ObjectEnd(s, i + 1, 1))}
\* the second pattern, (\{.*?\})\s*<translated_text>
SimpleEnds(s, i) == {j \in (i + 1)..Len(s) : IsClose(s[j]) /\ TagFollows(s, j)}
SimpleStarts(s) == {i \in 1..Len(s) : IsOpen(s[i]) /\ SimpleEnds(s, i) # {}}

\* json.loads of a text of these tokens: it is a JSON object exactly when it
\* starts with "{", ends with the "}" that closes it and holds no tag or
\* marker; the value is the text without its whitespace
RECURSIVE JsonDepth(_, _, _)
JsonDepth(s, p, depth) ==
    IF p > Len(s) THEN depth
    ELSE IF depth = 0 THEN -1
    ELSE IF s[p] = "{" THEN JsonDepth(s, p + 1, depth + 1)
    ELSE IF s[p] = "}" THEN JsonDepth(s, p + 1, depth - 1)
    ELSE IF s[p] \in {"x", "q{", " "} THEN JsonDepth(s, p + 1, depth)
    ELSE -1
json_loads(s) ==
    IF s # <<>> /\ s[1] = "{" /\ JsonDepth(s, 2, 1) = 0
    THEN [ok |-> TRUE, val |-> SelectSeq(s, LAMBDA c : ~IsSpace(c))]
    ELSE [ok |-> FALSE, val |-> <<>>]

\* _extract_metadata_json: the second pattern is tried only when the first
\* one finds nothing; a match that is not JSON gives None
extract_metadata_json(s) ==
    LET first == PrimaryStarts(s)
        second == SimpleStarts(s)
        group == IF first # {}
                 THEN SubSeq(s, Lowest(first), ObjectEnd(s, Lowest(first) + 1, 1))
                 ELSE SubSeq(s, Lowest(second), Lowest(SimpleEnds(s, Lowest(second))))
    IN  IF first = {} /\ second = {} THEN [ok |-> FALSE, val |-> <<>>]
        ELSE json_loads(group)

\* _extract_translated_text_content: what is between the first opening tag
\* and the first closing tag after it, stripped; the whole text without tags
extract_translated_text_content(s) ==
    LET opens == {i \in 1..Len(s) : /\ s[i] = "<t>"
                                    /\ \E j \in (i + 1)..Len(s) : s[j] = "</t>"}
    IN  IF opens = {} THEN s
        ELSE LET i == Lowest(opens)
                 j == Lowest({k \in (i + 1)..Len(s) : s[k] = "</t>"})
             IN  strip(SubSeq(s, i + 1, j - 1))

\* add_sentence_markers of a text without markers: whitespace is left as it
\* is, a text of one line and one sentence gets ┼1┼ in front
add_sentence_markers(s) ==
    IF strip(s) = <<>> THEN s ELSE <<"m1">> \o s

\* analyze_raw_text_to_json (no text of these tokens is a JSON object with a
\* "segments" list, so _try_parse_json_segments returns None): one segment
\* per marker, its text what follows up to the next marker
analyze_raw_text_to_json(raw_text) ==
    LET marked == IF \E i \in 1..Len(raw_text) : IsMarker(raw_text[i])
                  THEN raw_text ELSE add_sentence_markers(raw_text)
        at == {i \in 1..Len(marked) : IsMarker(marked[i])}
        RECURSIVE From(_)
        From(i) ==
            LET later == {k \in at : k > i}
                end == IF later = {} THEN Len(marked) ELSE Lowest(later) - 1
                seg == [sid |-> Sid(marked[i]), text |-> SubSeq(marked, i + 1, end)]
            IN  IF later = {} THEN <<seg>> ELSE <<seg>> \o From(Lowest(later))
    IN  IF at = {} THEN <<>> ELSE From(Lowest(at))

\* TranslationChunkCollector.format_result
format_result(content) ==
    IF content = <<>> THEN FormatEmpty
    ELSE LET metadata == extract_metadata_json(content)
             segments == analyze_raw_text_to_json(extract_translated_text_content(content))
         IN  [segments |-> segments,
              has_metadata |-> metadata.ok /\ Len(metadata.val) > 2,
              metadata |-> IF metadata.ok /\ Len(metadata.val) > 2
                           THEN metadata.val ELSE <<>>,
              has_raw |-> segments = <<>>]

\* the JSON objects the agent may put first: {"summary":"s"}, {"a":{"b":1}},
\* {"a":{"b":{"c":1}}}, {"summary":"x{y"} and {}
JsonObjects ==
    {<<"{", "x", "}">>, <<"{", "x", "{", "x", "}", "}">>,
     <<"{", "x", "{", "x", "{", "x", "}", "}", "}">>,
     <<"{", "x", "q{", "x", "}">>, <<"{", "}">>}

\* what the chunks of a model stream carry: a JSON object, the tagged text
\* whole, or a part of it
StreamTexts ==
    JsonObjects \cup
    {<<"<t>", "m1", "a", "m2", "b", "</t>">>, <<"<t>", "m1", "a">>,
     <<"m2", "b", " ", "</t>">>, <<" ", "<t>", "m1", "a", "</t>">>, <<>>}

StreamEvent(name, is_ai, is_tool, data) ==
    [event |-> "events", event_name |-> name, is_ai_message |-> is_ai,
     is_tool_call |-> is_tool, chunk_data |-> data]

\* the parsed chunks of one run the collector is fed with
CollectorChunks ==
    {StreamEvent("on_chat_model_stream", TRUE, FALSE, t) : t \in StreamTexts}
    \cup {StreamEvent("on_chat_model_stream", FALSE, TRUE, <<"x">>),
          StreamEvent("on_chat_model_end", TRUE, FALSE, <<"a">>)}

\* ignoring which chunk the text comes from
append_any_content(content, parsed) == content \o parsed.chunk_data

\* process_langgraph_chunk, the collector's part: append_ai_content of the
\* chunk_data of an on_chat_model_stream chunk with is_ai_message
append_ai_content(content, parsed) ==
    IF /\ parsed.event = "events"
       /\ parsed.event_name = "on_chat_model_stream"
       /\ parsed.is_ai_message
       /\ parsed.chunk_data # <<>>
    THEN content \o parsed.chunk_data
    ELSE content

CollectChunk(parsed) ==
    /\ ~collector.formatted
    /\ Len(collector.fed) < MaxParts
    /\ collector' = [collector EXCEPT
            !.fed = Append(@, parsed),
            !.ai_message_content = append_ai_content(@, parsed)]
    /\ UNCHANGED <<task, messages, threads, channels, yielded, proc, groups, subs,
                   prompts, rsbuf>>

\* STEP 8 of the translation run: translated_text = chunk_collector.format_result()
FormatResult ==
    /\ ~collector.formatted
    /\ collector' = [collector EXCEPT
            !.formatted = TRUE,
            !.result = format_result(collector.ai_message_content)]
    /\ UNCHANGED <<task, messages, threads, channels, yielded, proc, groups, subs,
                   prompts, rsbuf>>

NextCollector ==
    \/ \E parsed \in CollectorChunks : CollectChunk(parsed)
    \/ FormatResult

SpecCollector == Init /\ [][NextCollector]_vars

\* --------------------------------------------------------------------- C33
\* the texts T of the segments, and the segment lists ┼1┼T1┼2┼T2
SegmentTexts == {<<"a">>, <<"b">>, <<"b", " ">>}
SegmentLists ==
    {<<[sid |-> 1, text |-> t]>> : t \in SegmentTexts}
    \cup {<<[sid |-> 1, text |-> t], [sid |-> 2, text |-> u]>> :
             t \in SegmentTexts, u \in SegmentTexts}

\* <translated_text>┼1┼T1┼2┼T2</translated_text>
TaggedText(segs) ==
    <<"<t>", "m1">> \o segs[1].text
        \o (IF Len(segs) = 2 THEN <<"m2">> \o segs[2].text ELSE <<>>) \o <<"</t>">>

\* the chunk_data of the on_chat_model_stream chunks with is_ai_message,
\* concatenated in stream order
RECURSIVE AiTextOf(_)
AiTextOf(fed) ==
    IF fed = <<>> THEN <<>>
    ELSE (IF fed[1].event_name = "on_chat_model_stream" /\ fed[1].is_ai_message
          THEN fed[1].chunk_data ELSE <<>>) \o AiTextOf(Tail(fed))

\* C33: the accumulated text is the concatenation of the chunk_data of
\* exactly the AI stream chunks, and for a text made of a JSON object and
\* the tagged segments format_result returns these segments, sid and order
\* kept, and the JSON object as metadata.
C33_FormatResultSegmentsAndMetadata ==
    /\ collector.ai_message_content = AiTextOf(collector.fed)
    /\ collector.formatted =>
          \A object \in JsonObjects, segs \in SegmentLists :
              collector.ai_message_content = object \o TaggedText(segs) =>
                  /\ collector.result.segments = segs
                  /\ collector.result.has_metadata
                  /\ collector.result.metadata = object

C35_OneTerminalStatusPerRun ==
    [][\A q \in Requests :
          proc[q].outcome \in {COMPLETED, HITL} => proc'[q].outcome = proc[q].outcome]_vars

\* ------------------------------------------------ resumes of one message
\* The state after a first run of message 1 has ended in HITL (reached in
\* Spec by a create request whose run receives the interrupted tasks chunk):
\* the rows say HITL and channel 1 holds the entries of that run.  The two
\* requests are requests made after it.
InitResume ==
    /\ task = [status |-> HITL, thread_id |-> 1, last_run_id |-> NoneVal]
    /\ messages = <<[status |-> HITL, thread_id |-> 2, task_id |-> TaskId]>>
    /\ threads = 2
    /\ channels = [m \in MessageIds |->
          IF m = 1
          THEN <<[type |-> "langgraph_stream_chunk",
                  payload |-> [data |-> [t |-> "none"], message_id |-> 0,
                               status |-> NoneVal, type |-> "tasks", message |-> NoneVal]],
                 [type |-> "ai_message",
                  payload |-> [data |-> [t |-> "none"], message_id |-> 1,
                               status |-> HITL, type |-> "ai",
                               message |-> "Please specify target language"]]>>
          ELSE <<>>]
    /\ yielded = 1
    /\ groups = [g \in GroupNames |-> NoGroup]
    /\ subs = [s \in Subs |-> SubInit]
    /\ proc = [q \in Requests |-> ProcInit]
    /\ prompts = PromptInit("", <<>>)
    /\ collector = CollectorInit
    /\ rsbuf = RsbufInit

\* HITL-resume requests only, any interleaving
NextResume ==
    \/ \E q \in Requests : \E hitl_message_id \in MessageIds :
           ReqReadTask(q, TRUE, hitl_message_id)
    \/ \E q \in Requests : ReqReadMessage(q)
    \/ \E q \in Requests : \E db_ok \in BOOLEAN : ReqCommit(q, db_ok)
    \/ \E q \in Requests : \E agent_ok \in BOOLEAN : RunStart(q, agent_ok)
    \/ \E q \in Requests : \E db_ok \in BOOLEAN : RunPersistThread(q, db_ok)
    \/ \E q \in Requests : \E chunk \in AgentChunks : \E agent_ok, mq_ok \in BOOLEAN :
           RunChunk(q, chunk, agent_ok, mq_ok)
    \/ \E q \in Requests : \E db_ok \in BOOLEAN : RunWriteRunId(q, db_ok)
    \/ \E q \in Requests : \E mq_ok \in BOOLEAN : RunInterrupt(q, mq_ok)
    \/ \E q \in Requests : \E db_ok \in BOOLEAN : RunTerminal(q, db_ok)
    \/ \E q \in Requests : \E mq_ok \in BOOLEAN : RunSendDone(q, mq_ok)
    \/ \E q \in Requests : \E db_ok \in BOOLEAN : RunExcept(q, db_ok)

SpecResume == InitResume /\ [][NextResume]_vars

\* --------------------------------------------------------------------- C36
\* C36: a chatbot channel holds at most one `done`, and no entry after it.
C36_DoneIsLastEntry ==
    \A m \in MessageIds :
        \A i \in 1 .. Len(channels[m]) :
            channels[m][i] = DoneEntry => i = Len(channels[m])

\* ------------------------------------------------------ runs that go on
\* a step of the background task of request q
RunStep(q) ==
    \/ \E agent_ok \in BOOLEAN : RunStart(q, agent_ok)
    \/ \E db_ok \in BOOLEAN : RunPersistThread(q, db_ok)
    \/ \E chunk \in AgentChunks : \E agent_ok, mq_ok \in BOOLEAN :
           RunChunk(q, chunk, agent_ok, mq_ok)
    \/ \E db_ok \in BOOLEAN : RunWriteRunId(q, db_ok)
    \/ \E mq_ok \in BOOLEAN : RunInterrupt(q, mq_ok)
    \/ \E db_ok \in BOOLEAN : RunTerminal(q, db_ok)
    \/ \E mq_ok \in BOOLEAN : RunSendDone(q, mq_ok)
    \/ \E db_ok \in BOOLEAN : RunExcept(q, db_ok)

\* The event loop runs a scheduled background task to its end: every await
\* returns or raises, and the agent stream ends or raises.
SpecInTurnFair ==
    Init /\ [][NextInTurn]_vars /\ \A q \in Requests : WF_vars(RunStep(q))

\* --------------------------------------------------------------------- C37
\* C37: every started run eventually moves its task and its message out of
\* IN_PROGRESS / PROCESSING, to HITL, COMPLETED or FAILED.
C37_RunLeavesInProgress ==
    \A q \in Requests :
        [](proc[q].pc = "scheduled"
              => <>(/\ task.status \in {HITL, COMPLETED, FAILED}
                    /\ proc[q].message_id \in DOMAIN messages
                    /\ messages[proc[q].message_id].status \in {HITL, COMPLETED, FAILED}))

\* ------------------------------------------------- a key that disappears
\* The key mq:channel:<ChannelId> expires (EXPIRE ttl) or is deleted
\* (RedisStreamMessageQueue.delete): the stream's entries and all its
\* consumer groups go with it.  Ids are positions, so the places of the
\* entries are kept; entries appended later get later ids, as in Redis.
KeyGone ==
    /\ channels[ChannelId] # <<>>
    /\ \E i \in 1 .. Len(channels[ChannelId]) : channels[ChannelId][i] # EvictedEntry
    /\ channels' = [channels EXCEPT ![ChannelId] = [i \in 1 .. Len(@) |-> EvictedEntry]]
    /\ groups' = [g \in GroupNames |-> NoGroup]
    /\ UNCHANGED <<subs, runvars>>

\* the subscription that is followed
FirstSub == {1}

\* one SSE subscription reading new entries, the producer, and the key
\* disappearing
NextKeyGone ==
    \/ \E s \in FirstSub : \E method \in {"s", "n"} : SseStart(s, "a", method)
    \/ \E s \in FirstSub : SseDone(s)
    \/ \E s \in FirstSub : \E redis_ok \in BOOLEAN : SubEnsureGroup(s, redis_ok)
    \/ \E s \in FirstSub : \E is_disconnected \in BOOLEAN : SubPoll(s, is_disconnected)
    \/ \E s \in FirstSub : \E redis_ok \in BOOLEAN : SubRead(s, redis_ok)
    \/ \E s \in FirstSub : SubYield(s)
    \/ \E s \in FirstSub : \E redis_ok \in BOOLEAN : SubResume(s, redis_ok)
    \/ \E s \in FirstSub : \E redis_ok \in BOOLEAN : SubClose(s, redis_ok)
    \/ \E type \in EntryTypes : MqSend(type)
    \/ KeyGone

SpecKeyGone == Init /\ [][NextKeyGone]_vars
\* the generator is run, and of its reads one is eventually answered
\* without a connection error
SpecKeyGoneFair == SpecKeyGone /\ \A s \in FirstSub : FairSub(s)

\* --------------------------------------------------------------------- C38
\* C38: a subscriber that was consuming the channel when its key
\* disappeared (it had received an entry that is gone now) eventually
\* receives each entry appended after the key was created again (unless it
\* ends first, has been followed to its last yield, or the entry is gone
\* with the key once more).
C38_SubscriberSurvivesKeyLoss ==
    \A s \in FirstSub : \A i \in 1 .. MaxEntries :
        (/\ Live(s)
         /\ \E j \in Range(subs[s].got) : channels[ChannelId][j] = EvictedEntry
         /\ i <= Len(channels[ChannelId])
         /\ channels[ChannelId][i] # EvictedEntry)
            ~> (\/ i \in Range(subs[s].got)
                \/ ~Live(s)
                \/ Len(subs[s].got) = MaxEntries
                \/ /\ i <= Len(channels[ChannelId])
                   /\ channels[ChannelId][i] = EvictedEntry)

\* ------------------------------------- a message of another task in HITL
\* As InitResume, but the message in HITL is a message of another task (a
\* run of that task has ended in HITL); the task the requests name is READY.
InitOwner ==
    /\ task = [status |-> READY, thread_id |-> 1, last_run_id |-> NoneVal]
    /\ messages = <<[status |-> HITL, thread_id |-> 2, task_id |-> OtherTaskId]>>
    /\ threads = 2
    /\ channels = [m \in MessageIds |->
          IF m = 1
          THEN <<[type |-> "ai_message",
                  payload |-> [data |-> [t |-> "none"], message_id |-> 1,
                               status |-> HITL, type |-> "ai",
                               message |-> "Please specify target language"]]>>
          ELSE <<>>]
    /\ yielded = 1
    /\ groups = [g \in GroupNames |-> NoGroup]
    /\ subs = [s \in Subs |-> SubInit]
    /\ proc = [q \in Requests |-> ProcInit]
    /\ prompts = PromptInit("", <<>>)
    /\ collector = CollectorInit
    /\ rsbuf = RsbufInit

SpecOwner == InitOwner /\ [][NextResume]_vars

\* --------------------------------------------------------------------- C39
\* C39: in every accepted HITL-resume request the resumed message belongs
\* to the task the request names.
C39_ResumedMessageBelongsToTask ==
    \A q \in Requests :
        (proc[q].hitl_mode /\ proc[q].message_id # 0)
            => messages[proc[q].message_id].task_id = TaskId

\* ------------------------------------------------------ the run-id buffer
\* the entries a run appends to its buffer before the model stops following
MaxBuf == 3
\* the count argument of backfill (0: None, one XRANGE without COUNT)
PageCounts == {0, 1, 2}
RsUnchanged ==
    UNCHANGED <<task, messages, threads, channels, yielded, proc, groups, subs,
                prompts, collector>>

\* XRANGE key [last + (COUNT count) with an inclusive start
xrange_from(stream, last, count) ==
    LET first == IF last > 0 THEN last ELSE 1
        ids == [i \in 1 .. (IF Len(stream) >= first THEN Len(stream) - first + 1 ELSE 0)
                   |-> first + i - 1]
    IN  IF count > 0 /\ Len(ids) > count THEN SubSeq(ids, 1, count) ELSE ids

\* XRANGE key (last + (COUNT count): the ids after `last`, at most count of
\* them (maxlen 10000 is never reached by a bounded run: no entry is trimmed)
xrange_after(stream, last, count) ==
    LET ids == [i \in 1 .. (IF Len(stream) > last THEN Len(stream) - last ELSE 0)
                   |-> last + i]
    IN  IF count > 0 /\ Len(ids) > count THEN SubSeq(ids, 1, count) ELSE ids

\* XREAD BLOCK block STREAMS key last_id: every entry after last_id
xread(stream, last_id) ==
    [i \in 1 .. (IF Len(stream) > last_id THEN Len(stream) - last_id ELSE 0)
        |-> last_id + i]

\* RedisStreamBuffer.append: XADD and EXPIRE in one pipeline
RsAppend ==
    /\ ~rsbuf.finished
    /\ Len(rsbuf.stream) < MaxBuf - 1
    /\ rsbuf' = [rsbuf EXCEPT !.stream = Append(@, "chunk")]
    /\ RsUnchanged

\* RedisStreamBuffer.finish: append {"type": "done"}; the producer ends
RsFinish ==
    /\ ~rsbuf.finished
    /\ rsbuf' = [rsbuf EXCEPT !.stream = Append(@, "done"), !.finished = TRUE]
    /\ RsUnchanged

\* the consumer starts: last = after_id, backfill(run_id, after_id, count)
RsConsumerStart(after_id, count) ==
    /\ rsbuf.pc = "idle"
    /\ after_id <= Len(rsbuf.stream)
    /\ rsbuf' = [rsbuf EXCEPT !.pc = "backfill", !.after_id = after_id,
                              !.count = count, !.last = after_id, !.cursor = after_id]
    /\ RsUnchanged

\* backfill awaits XRANGE.  Without count there is one XRANGE; with count an
\* empty answer ends the generator, and the consumer goes on to
\* tail(run_id, after_id=last).
RsBackfillRead ==
    /\ rsbuf.pc = "backfill"
    /\ LET entries == xrange_after(rsbuf.stream, rsbuf.cursor, rsbuf.count)
       IN  rsbuf' = IF entries = <<>>
                    THEN [rsbuf EXCEPT !.pc = "tail", !.cursor = rsbuf.last]
                    ELSE [rsbuf EXCEPT !.pc = "backfill_yield", !.page = entries]
    /\ RsUnchanged

\* yield eid, payload: the consumer sets last = eid and returns on done.
\* After the last entry of the answer backfill returns (no count) or sets
\* its last to that entry's id and reads on (count).
RsBackfillYield ==
    /\ rsbuf.pc = "backfill_yield"
    /\ LET eid == Head(rsbuf.page)
           rest == Tail(rsbuf.page)
       IN  rsbuf' = [rsbuf EXCEPT
              !.page = rest,
              !.last = eid,
              !.delivered = Append(@, eid),
              !.cursor = IF rest = <<>> THEN eid ELSE @,
              !.pc = IF rsbuf.stream[eid] = "done" THEN "ended"
                     ELSE IF rest # <<>> THEN "backfill_yield"
                     ELSE IF rsbuf.count = 0 THEN "tail"
                     ELSE "backfill"]
    /\ RsUnchanged

\* tail awaits XREAD from last_id; an empty answer (the block timed out)
\* reads again
RsTailRead ==
    /\ rsbuf.pc = "tail"
    /\ LET items == xread(rsbuf.stream, rsbuf.cursor)
       IN  /\ items # <<>>
           /\ rsbuf' = [rsbuf EXCEPT !.pc = "tail_yield", !.page = items]
    /\ RsUnchanged

\* last_id = eid; yield eid, payload: the consumer returns on done
RsTailYield ==
    /\ rsbuf.pc = "tail_yield"
    /\ LET eid == Head(rsbuf.page)
           rest == Tail(rsbuf.page)
       IN  rsbuf' = [rsbuf EXCEPT
              !.page = rest,
              !.cursor = eid,
              !.delivered = Append(@, eid),
              !.from_tail = @ + 1,
              !.pc = IF rsbuf.stream[eid] = "done" THEN "ended"
                     ELSE IF rest # <<>> THEN "tail_yield"
                     ELSE "tail"]
    /\ RsUnchanged

NextRsbuf ==
    \/ RsAppend
    \/ RsFinish
    \/ \E after_id \in 0 .. MaxBuf - 1 : \E count \in PageCounts :
           RsConsumerStart(after_id, count)
    \/ RsBackfillRead
    \/ RsBackfillYield
    \/ RsTailRead
    \/ RsTailYield

SpecRsbuf == Init /\ [][NextRsbuf]_vars

====
